---- MODULE Spec2Model ----
(***************************************************************************)
(* Model of the SmartShield model bridge (modelBridge.js): the hosted       *)
(* providers (Gemini, OpenAI), the local stub, the Redis response cache    *)
(* and ModelBridge.analyzeText / ModelBridge.chat with primary/fallback.   *)
(*                                                                         *)
(* Numbers are kept in tenths (0.5 is 5, 0.1 is 1, 1 is 10).  JavaScript   *)
(* values are tagged records so that undefined, null, NaN, numbers and     *)
(* strings stay distinct.                                                  *)
(***************************************************************************)
EXTENDS Integers, Sequences, FiniteSets, TLC

VARIABLES providers, fallbackProvider,
          store, now,
          call,
          parseProv, parseData, parseOut,
          cacheOut,
          zset, zexp, rateNow, rateIn, rateOut,
          thresholdsConfig, decisiveWins, scan,
          boot, sessions, configService, analyticsService, pgClient,
          rateLog

bridgeVars == <<providers, fallbackProvider>>

cacheVars == <<store, now>>

parseVars == <<parseProv, parseData, parseOut>>

\* the completion of the last cache.delete
deleteVars == <<cacheOut>>

\* the sorted sets behind rateLimit.checkLimit, their expiry, the clock in
\* milliseconds, the arguments and the completion of the last checkLimit
rateVars == <<zset, zexp, rateNow, rateIn, rateOut>>

\* the configured thresholds, the way the detector settles a conflict of its
\* escalation rules, and the one POST /api/scan request
scanVars == <<thresholdsConfig, decisiveWins, scan>>

\* the start of the backend process, the chat sessions in Redis, the
\* extension's ConfigService, its AnalyticsService, the database client of
\* one transaction
serviceVars == <<boot, sessions, configService, analyticsService, pgClient>>

\* rateLog: the checkLimit calls made so far with their returns, per identifier
lateVars == <<serviceVars, rateLog>>

vars == <<providers, fallbackProvider, store, now, call,
          parseProv, parseData, parseOut,
          cacheOut,
          zset, zexp, rateNow, rateIn, rateOut,
          thresholdsConfig, decisiveWins, scan,
          boot, sessions, configService, analyticsService, pgClient,
          rateLog>>

(***************************************************************************)
(* Bounds of the model.                                                    *)
(***************************************************************************)
MaxTicks == 2

TickSeconds == 1800

Calls == {"c1", "c2"}

Texts == {"a", "b"}

Ops == {"analysis", "chat"}

\* the requests of the model: an analysis of either text, a chat about one
Requests ==
    {[op |-> "analysis", text |-> t] : t \in Texts} \cup {[op |-> "chat", text |-> "a"]}

\* values of config.modelName (MODEL_NAME, default 'gemini-free')
ModelNames == {"gemini-free"}

(***************************************************************************)
(* JavaScript values.                                                      *)
(***************************************************************************)
Undefined == [t |-> "undefined"]

JNull == [t |-> "null"]

NaN == [t |-> "NaN"]

Num(n) == [t |-> "number", v |-> n]

Str(s) == [t |-> "string", s |-> s]

Arr(a) == [t |-> "array", a |-> a]

\* x is falsy in JavaScript: the left operand of || is replaced by the right
Falsy(x) ==
    \/ x.t \in {"undefined", "null", "NaN"}
    \/ x.t = "number" /\ x.v = 0
    \/ x.t = "string" /\ x.s = ""

\* a || b
OrElse(a, b) == IF Falsy(a) THEN b ELSE a

\* ToNumber on the values a JSON reply can carry; the strings of the model
\* are not numeric, so they convert to NaN
ToNumber(x) ==
    CASE x.t = "number" -> x
      [] x.t = "null"   -> Num(0)
      [] x.t = "array"  -> IF x.a = <<>> THEN Num(0) ELSE NaN
      [] OTHER          -> NaN

\* Math.min(a, b) and Math.max(a, b): NaN if either operand is NaN
MathMin(a, b) ==
    LET x == ToNumber(a)
        y == ToNumber(b)
    IN  IF x.t = "NaN" \/ y.t = "NaN" THEN NaN
        ELSE IF x.v <= y.v THEN x ELSE y

MathMax(a, b) ==
    LET x == ToNumber(a)
        y == ToNumber(b)
    IN  IF x.t = "NaN" \/ y.t = "NaN" THEN NaN
        ELSE IF x.v >= y.v THEN x ELSE y

(***************************************************************************)
(* Completion of a JavaScript function: it returns a value or it throws.   *)
(***************************************************************************)
Return(v) == [threw |-> FALSE, value |-> v]

Throw == [threw |-> TRUE]

(***************************************************************************)
(* Provider instances.  Every `new` yields a fresh id.                     *)
(***************************************************************************)
NoProvider == [id |-> 0, kind |-> "none", modelName |-> "", provider |-> "none"]

GeminiProvider(id, modelName, provider) ==
    [id |-> id, kind |-> "gemini", modelName |-> modelName, provider |-> provider]

OpenAIProvider(id, modelName, provider) ==
    [id |-> id, kind |-> "openai", modelName |-> modelName, provider |-> provider]

LocalProvider(id, modelName, provider) ==
    [id |-> id, kind |-> "local", modelName |-> modelName, provider |-> provider]

(***************************************************************************)
(* Bodies of a 2xx reply.  A body is null, or follows the schema of one    *)
(* API and carries a content value at that API's path.  A string content   *)
(* records what /\{[\s\S]*\}/ and JSON.parse make of it.                   *)
(***************************************************************************)
NullBody == [kind |-> "null"]

Body(api, content) == [kind |-> "body", api |-> api, content |-> content]

TextNoJson == [t |-> "string", s |-> "plain text", match |-> "none"]

TextBadJson == [t |-> "string", s |-> "{not json}", match |-> "bad"]

TextJson(parsed) == [t |-> "string", s |-> "{json}", match |-> "ok", parsed |-> parsed]

TextAnswer == [t |-> "string", s |-> " answer "]

Parsed(score, label, reasons, explanation, confidence) ==
    [score |-> score, label |-> label, reasons |-> reasons,
     explanation |-> explanation, confidence |-> confidence]

\* String.prototype.trim on the strings of the model
Trim(x) == IF x.s = " answer " THEN "answer" ELSE x.s

\* data.candidates?.[0]?.content?.parts?.[0]?.text
GeminiContent(data) == IF data.api = "gemini" THEN data.content ELSE Undefined

\* data.choices?.[0]?.message?.content
OpenAIContent(data) == IF data.api = "openai" THEN data.content ELSE Undefined

\* the object literal both parsers build from the parsed JSON
NormalizedAnalysis(p, parsed) ==
    [score       |-> MathMax(Num(0), MathMin(Num(10), OrElse(parsed.score, Num(0)))),
     label       |-> OrElse(parsed.label, Str("uncertain")),
     reasons     |-> IF parsed.reasons.t = "array" THEN parsed.reasons.a ELSE <<>>,
     explanation |-> OrElse(parsed.explanation, Str("Analysis completed")),
     confidence  |-> MathMax(Num(0), MathMin(Num(10), OrElse(parsed.confidence, Num(5)))),
     model       |-> p.modelName,
     provider    |-> p.provider]

\* the try block of a parseAnalysisResponse, given the content it extracted
ParseAnalysisTry(p, data, content) ==
    IF data.kind = "null" THEN Throw
    ELSE IF Falsy(content) THEN Throw
    ELSE IF content.t # "string" THEN Throw
    ELSE IF content.match = "none" THEN Throw
    ELSE IF content.match = "bad" THEN Throw
    ELSE Return(NormalizedAnalysis(p, content.parsed))

ParseFailureAnalysis(p) ==
    [score       |-> Num(5),
     label       |-> Str("uncertain"),
     reasons     |-> <<"Analysis failed - unable to parse response">>,
     explanation |-> Str("Unable to analyze content due to processing error"),
     confidence  |-> Num(1),
     model       |-> p.modelName,
     provider    |-> p.provider]

GeminiParseCatchRethrows(p) == Throw

\* the catch block of GeminiProvider.parseAnalysisResponse
GeminiParseCatch(p) == Return(ParseFailureAnalysis(p))

\* the catch block of OpenAIProvider.parseAnalysisResponse
OpenAIParseCatch(p) == Return(ParseFailureAnalysis(p))

GeminiParseAnalysisResponse(p, data) ==
    LET body == ParseAnalysisTry(p, data,
                   IF data.kind = "null" THEN Undefined ELSE GeminiContent(data))
    IN  IF body.threw THEN GeminiParseCatch(p) ELSE body

OpenAIParseAnalysisResponse(p, data) ==
    LET body == ParseAnalysisTry(p, data,
                   IF data.kind = "null" THEN Undefined ELSE OpenAIContent(data))
    IN  IF body.threw THEN OpenAIParseCatch(p) ELSE body

ParseFailureChat(p) ==
    [answer     |-> Str("I apologize, but I encountered an error processing your question. Please try again."),
     sources    |-> <<>>,
     model      |-> p.modelName,
     provider   |-> p.provider,
     confidence |-> Num(1)]

ParseChatTry(p, data, content, source) ==
    IF data.kind = "null" THEN Throw
    ELSE IF Falsy(content) THEN Throw
    ELSE IF content.t # "string" THEN Throw
    ELSE Return([answer     |-> Str(Trim(content)),
                 sources    |-> <<source>>,
                 model      |-> p.modelName,
                 provider   |-> p.provider,
                 confidence |-> Num(8)])

GeminiParseChatResponse(p, data) ==
    LET body == ParseChatTry(p, data,
                   IF data.kind = "null" THEN Undefined ELSE GeminiContent(data),
                   "Gemini AI Model")
    IN  IF body.threw THEN Return(ParseFailureChat(p)) ELSE body

OpenAIParseChatResponse(p, data) ==
    LET body == ParseChatTry(p, data,
                   IF data.kind = "null" THEN Undefined ELSE OpenAIContent(data),
                   "OpenAI GPT Model")
    IN  IF body.threw THEN Return(ParseFailureChat(p)) ELSE body

\* this.parseAnalysisResponse / this.parseChatResponse of provider p
ParseResponse(p, op, data) ==
    CASE p.kind = "gemini" /\ op = "analysis" -> GeminiParseAnalysisResponse(p, data)
      [] p.kind = "gemini" /\ op = "chat"     -> GeminiParseChatResponse(p, data)
      [] p.kind = "openai" /\ op = "analysis" -> OpenAIParseAnalysisResponse(p, data)
      [] p.kind = "openai" /\ op = "chat"     -> OpenAIParseChatResponse(p, data)

\* LocalProvider.analyzeText / LocalProvider.chat
LocalAnalysis(p) ==
    [score       |-> Num(5),
     label       |-> Str("uncertain"),
     reasons     |-> <<"Local model not available">>,
     explanation |-> Str("Local model analysis not implemented"),
     confidence  |-> Num(1),
     model       |-> p.modelName,
     provider    |-> p.provider]

LocalChat(p) ==
    [answer     |-> Str("Local model chat not implemented yet. Please use Gemini or OpenAI provider."),
     sources    |-> <<>>,
     model      |-> p.modelName,
     provider   |-> p.provider,
     confidence |-> Num(1)]

LocalResponse(p, op) == IF op = "analysis" THEN LocalAnalysis(p) ELSE LocalChat(p)

(***************************************************************************)
(* Configuration and ModelBridge.initializeProviders.                      *)
(* An API key is modelled by whether it is set.                            *)
(***************************************************************************)
Configs ==
    [modelProvider : {"gemini", "openai", "local"},
     modelName     : ModelNames,
     geminiApiKey  : BOOLEAN,
     openaiApiKey  : BOOLEAN]

getModelConfig(c) ==
    CASE c.modelProvider = "gemini" ->
           [provider |-> "gemini", apiKey |-> c.geminiApiKey, modelName |-> c.modelName]
      [] c.modelProvider = "openai" ->
           [provider |-> "openai", apiKey |-> c.openaiApiKey, modelName |-> c.modelName]
      [] c.modelProvider = "local" ->
           [provider |-> "local", apiKey |-> FALSE, modelName |-> c.modelName]

\* the switch that fills providers['primary']
InitPrimary(c) ==
    LET modelConfig == getModelConfig(c)
    IN  CASE modelConfig.provider = "gemini" /\ modelConfig.apiKey ->
               GeminiProvider(1, modelConfig.modelName, "gemini")
          [] modelConfig.provider = "openai" /\ modelConfig.apiKey ->
               OpenAIProvider(1, modelConfig.modelName, "openai")
          [] modelConfig.provider = "local" ->
               LocalProvider(1, modelConfig.modelName, "local")
          [] OTHER -> NoProvider

\* providers['fallback'] is set only when there is a Gemini key and no primary
InitFallbackSlot(c, primary) ==
    IF c.geminiApiKey /\ primary = NoProvider
    THEN GeminiProvider(2, "gemini-free", "gemini")
    ELSE NoProvider

\* this.fallbackProvider = providers.get('fallback') || providers.get('primary') || new LocalProvider(...)
InitFallbackProvider(primary, fallbackSlot) ==
    IF fallbackSlot # NoProvider THEN fallbackSlot
    ELSE IF primary # NoProvider THEN primary
    ELSE LocalProvider(3, "local", "local")

initializeProviders(c) ==
    LET primary  == InitPrimary(c)
        fallback == InitFallbackSlot(c, primary)
    IN  [providers        |-> [primary |-> primary, fallback |-> fallback],
         fallbackProvider |-> InitFallbackProvider(primary, fallback)]

(***************************************************************************)
(* The response cache (redis.js) and the providers' cache keys.            *)
(***************************************************************************)
AnalysisTTL == 3600

ChatTTL == 1800

\* crypto.createHash('sha256').update(text).digest('hex').substring(0, 16)
Sha256Hex16(text) ==
    CASE text = "a"   -> "ca978112ca1bbdca"
      [] text = "b"   -> "3e23e8160039594a"
      [] text = "a:q" -> "bedf9cbe864e36cd"

\* cache.generateKey: `${prefix}:${hash}:${model}`
generateKey(prefix, hash, model) == <<prefix, hash, model>>

generateCacheKey(p, text, operation) ==
    generateKey(operation, Sha256Hex16(text), p.modelName)

\* the text a provider hashes: request.text, or `${context}:${question}`
KeyText(r) == IF r.op = "analysis" THEN r.text ELSE "a:q"

AllKeys ==
    {generateKey(op, Sha256Hex16(t), m) :
        op \in Ops, t \in {"a", "b", "a:q"}, m \in ModelNames}

NoEntry == [present |-> FALSE]

\* JSON.stringify turns a NaN number into null
JsonNumber(x) == IF x.t = "NaN" THEN JNull ELSE x

JsonStringify(v) ==
    IF "score" \in DOMAIN v
    THEN [json |-> [v EXCEPT !.score = JsonNumber(@), !.confidence = JsonNumber(@)]]
    ELSE [json |-> [v EXCEPT !.confidence = JsonNumber(@)]]

JsonParse(s) == s.json

\* client.get(key): the stored string, or null once the TTL has passed
RedisGet(st, key, time) ==
    IF st[key].present /\ time < st[key].expires THEN st[key].value ELSE JNull

\* cache.get: null when Redis is not connected (the error is caught)
CacheGet(open, st, key, time) ==
    IF ~open THEN JNull
    ELSE LET value == RedisGet(st, key, time)
         IN  IF value = JNull THEN JNull ELSE JsonParse(value)

CacheSetDropsWrite(open, st, key, value, ttlSeconds, time) == st

\* cache.set: client.setEx(key, ttlSeconds, JSON.stringify(value)); dropped
\* when Redis is not connected
CacheSet(open, st, key, value, ttlSeconds, time) ==
    IF ~open THEN st
    ELSE [st EXCEPT ![key] = [present |-> TRUE,
                              value   |-> JsonStringify(value),
                              expires |-> time + ttlSeconds]]

\* getRedisClient(): throws unless the client exists and is open
getRedisClient(open) == IF open THEN Return([t |-> "client"]) ELSE Throw

CacheGetCatchRethrows == Throw

\* catch (error) of cache.get: return null
CacheGetCatch == Return(JNull)

\* catch (error) of cache.set and of cache.delete: log, return nothing
CacheSetCatch == Return(Undefined)

CacheDeleteCatch == Return(Undefined)

\* the completion of await cache.get(key)
CacheGetCompletion(open, st, key, time) ==
    IF getRedisClient(open).threw THEN CacheGetCatch
    ELSE Return(CacheGet(open, st, key, time))

\* the completion of await cache.set(key, value, ttlSeconds)
CacheSetCompletion(open) ==
    IF getRedisClient(open).threw THEN CacheSetCatch ELSE Return(Undefined)

\* cache.delete: client.del(key); nothing is removed when Redis is not
\* connected
CacheDelete(open, st, key) ==
    IF getRedisClient(open).threw THEN st ELSE [st EXCEPT ![key] = NoEntry]

\* the completion of await cache.delete(key)
CacheDeleteCompletion(open) ==
    IF getRedisClient(open).threw THEN CacheDeleteCatch ELSE Return(Undefined)

CachedIgnored(cached) == FALSE

\* if (cached): a response object is truthy, null is not
Cached(cached) == cached # JNull

TTLOfAlwaysHour(op) == AnalysisTTL

\* the ttlSeconds a hosted provider passes to cache.set
TTLOf(op) == IF op = "analysis" THEN AnalysisTTL ELSE ChatTTL

(***************************************************************************)
(* One ModelBridge.analyzeText / ModelBridge.chat call.  call[c] holds the *)
(* position of the call, its request, the provider it is waiting for and   *)
(* the record of what it did so far.                                       *)
(***************************************************************************)
NoResult == [t |-> "none"]

NoRequest == [op |-> "none", text |-> ""]

\* one entry of the record of a call: what happened, in which role, at which
\* provider instance, and how it went
Ev(e, role, id, what) == [e |-> e, role |-> role, id |-> id, what |-> what]

IdleCall ==
    [pc |-> "idle", req |-> NoRequest, stage |-> "primary", cur |-> NoProvider,
     pending |-> NoResult, result |-> NoResult, settled |-> "pending",
     log |-> <<>>, end |-> 0, after |-> {}]

\* the promise of the bridge call settles: resolved with a value, or rejected
Settle(k, completion, time) ==
    [k EXCEPT !.pc = "done",
              !.settled = IF completion.threw THEN "rejected" ELSE "resolved",
              !.result = IF completion.threw THEN NoResult ELSE completion.value,
              !.log = Append(@, Ev("return", k.stage, k.cur.id, IF completion.threw THEN "rejected" ELSE "resolved")),
              !.end = time]

\* provider.analyzeText(request) / provider.chat(request) is called and runs
\* to its first await; the local stub answers at once
Invoke(k, role, p, time) ==
    LET k1 == [k EXCEPT !.stage = role, !.cur = p,
                        !.log = Append(@, Ev("invoke", role, p.id, "call"))]
    IN  IF p.kind = "local"
        THEN Settle(k1, Return(LocalResponse(p, k.req.op)), time)
        ELSE [k1 EXCEPT !.pc = "get"]

EmergencyAnalysisWrong ==
    [score       |-> Num(5),
     label       |-> Str("uncertain"),
     reasons     |-> <<>>,
     explanation |-> Str("Unable to analyze content - all model providers are unavailable"),
     confidence  |-> Num(5),
     model       |-> "fallback",
     provider    |-> "fallback"]

\* the emergency fallback response of ModelBridge.analyzeText
EmergencyAnalysis ==
    [score       |-> Num(5),
     label       |-> Str("uncertain"),
     reasons     |-> <<"Model analysis unavailable">>,
     explanation |-> Str("Unable to analyze content - all model providers are unavailable"),
     confidence  |-> Num(1),
     model       |-> "fallback",
     provider    |-> "fallback"]

\* the emergency fallback response of ModelBridge.chat
EmergencyChat ==
    [answer     |-> Str("I apologize, but I'm currently unable to process your question. Please try again later."),
     sources    |-> <<>>,
     model      |-> "fallback",
     provider   |-> "fallback",
     confidence |-> Num(1)]

FallbackCatchRethrows(op) == Throw

\* catch (fallbackError) of ModelBridge.analyzeText / chat
FallbackCatch(op) ==
    IF op = "analysis" THEN Return(EmergencyAnalysis) ELSE Return(EmergencyChat)

AfterFailureRetries(role) == "fallback"

\* where control goes when the provider awaited in the given role threw:
\* the outer catch calls the fallback, the inner catch gives up
AfterFailure(role) == IF role = "primary" THEN "fallback" ELSE "emergency"

ProviderThrewGivesUp(k, time) == Settle(k, FallbackCatch(k.req.op), time)

\* the provider call of the bridge threw (or there is no primary)
ProviderThrew(k, time) ==
    IF AfterFailure(k.stage) = "fallback"
    THEN Invoke(k, "fallback", fallbackProvider, time)
    ELSE Settle(k, FallbackCatch(k.req.op), time)

(***************************************************************************)
(* Outcomes of axios.post.                                                 *)
(***************************************************************************)
Timeout == [kind |-> "timeout"]

BadStatus == [kind |-> "status"]

Reply(data) == [kind |-> "reply", data |-> data]

ParsedValid ==
    Parsed(Num(7), Str("suspicious"), Arr(<<"r">>), Str("e"), Num(9))

ParsedUntyped ==
    Parsed(Str("high"), Str("phishing"), Str("r"), Undefined, Num(-5))

AnalysisBodies(api) ==
    {NullBody, Body(api, Undefined), Body(api, TextNoJson), Body(api, TextBadJson)}
    \cup {Body(api, TextJson(P)) :
            P \in {ParsedValid, ParsedUntyped}}

ChatBodies(api) == {NullBody, Body(api, Undefined), Body(api, TextAnswer)}

\* a 2xx body is malformed for an API when it is null, carries no content at
\* that API's path, or (for an analysis) the content holds no parsable JSON
BodyMalformed(api, op, data) ==
    \/ data.kind = "null"
    \/ data.kind = "body" /\ data.api # api
    \/ data.kind = "body" /\ data.api = api /\
          \/ Falsy(data.content)
          \/ data.content.t # "string"
          \/ op = "analysis" /\ data.content.t = "string" /\ data.content.match # "ok"

HttpOutcomes(p, op) ==
    {Timeout, BadStatus}
    \cup {Reply(d) : d \in IF op = "analysis" THEN AnalysisBodies(p.kind)
                            ELSE ChatBodies(p.kind)}

(***************************************************************************)
(* Initial state: the singleton bridge has been constructed from some      *)
(* configuration, the cache is empty, no call has started.                 *)
(***************************************************************************)
NotParsed == [threw |-> FALSE, value |-> NoResult]

\* no operation has been awaited yet
NotRun == [threw |-> FALSE, value |-> NoResult]

DefaultConfig ==
    [modelProvider |-> "gemini", modelName |-> "gemini-free",
     geminiApiKey |-> FALSE, openaiApiKey |-> FALSE]

Identifiers == {"ip1", "ip2"}

\* LOW_THRESHOLD, HIGH_THRESHOLD and REPORT_THRESHOLD in thousandths: the
\* defaults 0.3 / 0.7 / 0.8 and another setting that validateConfig accepts
DefaultThresholds ==
    [lowThreshold |-> 300, highThreshold |-> 700, reportThreshold |-> 800]

ThresholdConfigs ==
    {DefaultThresholds,
     [lowThreshold |-> 200, highThreshold |-> 600, reportThreshold |-> 900]}

NoScanRequest == [valid |-> FALSE, url |-> Undefined, orgId |-> Undefined]

NoLocalResult == [score |-> 0, matched |-> 0, reasons |-> <<>>, confidence |-> 0]

NoResponse == [status |-> 0]

IdleScan ==
    [pc |-> "idle", req |-> NoScanRequest, local |-> NoLocalResult,
     escalated |-> FALSE, outcome |-> NotRun, logged |-> <<>>,
     response |-> NoResponse, stored |-> "none", recorded |-> "none"]

\* the default thresholds are configured, no scan request has arrived
ScanIdle ==
    /\ thresholdsConfig = DefaultThresholds
    /\ decisiveWins = FALSE
    /\ scan = IdleScan

NoCheck == [identifier |-> "", limit |-> 0, windowSeconds |-> 0, outcome |-> "none"]

NoRateLog == [id \in Identifiers |-> <<>>]

NotBooted == [pc |-> "none"]

NoSessions == [pc |-> "none"]

NoConfigService == [pc |-> "none"]

NoAnalyticsService == [pc |-> "none"]

NoClient == [pc |-> "none"]

\* the parts of the system that take no part in a specification
LateIdle ==
    /\ boot = NotBooted
    /\ sessions = NoSessions
    /\ configService = NoConfigService
    /\ analyticsService = NoAnalyticsService
    /\ pgClient = NoClient
    /\ rateLog = NoRateLog

\* no rate limit key exists, no checkLimit has been called
RateIdle ==
    /\ zset = [id \in Identifiers |-> <<>>]
    /\ zexp = [id \in Identifiers |-> 0]
    /\ rateNow = 0
    /\ rateIn = NoCheck
    /\ rateOut = NotRun

Init ==
    /\ \E config \in Configs :
          /\ providers = initializeProviders(config).providers
          /\ fallbackProvider = initializeProviders(config).fallbackProvider
    /\ store = [key \in AllKeys |-> NoEntry]
    /\ now = 0
    /\ call = [c \in Calls |-> IdleCall]
    /\ parseProv = NoProvider
    /\ parseData = NullBody
    /\ parseOut = NotParsed
    /\ cacheOut = NotRun
    /\ RateIdle
    /\ LateIdle
    /\ ScanIdle

\* ModelBridge.analyzeText(request) / ModelBridge.chat(request) is called
Start(c, request) ==
    /\ call[c].pc = "idle"
    /\ LET k == [call[c] EXCEPT !.req = request,
                                !.after = {d \in Calls : call[d].pc = "done"}]
           primary == providers.primary
       IN  call' = [call EXCEPT ![c] =
                       IF primary # NoProvider
                       THEN Invoke(k, "primary", primary, now)
                       ELSE ProviderThrew(k, now)]
    /\ UNCHANGED <<bridgeVars, cacheVars, parseVars, deleteVars, rateVars, scanVars, lateVars>>

\* const cached = await cache.get(cacheKey); if (cached) return cached
\* (open: the Redis client is connected and the command succeeds)
ProviderCacheGet(c, open) ==
    /\ call[c].pc = "get"
    /\ LET k      == call[c]
           key    == generateCacheKey(k.cur, KeyText(k.req), k.req.op)
           got    == CacheGetCompletion(open, store, key, now)
           cached == IF got.threw THEN JNull ELSE got.value
           what   == IF got.threw THEN "threw"
                     ELSE IF ~open THEN "error"
                     ELSE IF cached = JNull THEN "miss" ELSE "hit"
           k1     == [k EXCEPT !.log = Append(@, Ev("get", k.stage, k.cur.id, what))]
       IN  call' = [call EXCEPT ![c] =
                       IF got.threw
                       THEN ProviderThrew(k1, now)
                       ELSE IF Cached(cached)
                       THEN Settle(k1, Return(cached), now)
                       ELSE [k1 EXCEPT !.pc = "http"]]
    /\ UNCHANGED <<bridgeVars, cacheVars, parseVars, deleteVars, rateVars, scanVars, lateVars>>

\* await axios.post(...) settles; a reply is parsed, a failure is rethrown
\* by the provider and lands in a catch of the bridge
ProviderHttp(c) ==
    /\ call[c].pc = "http"
    /\ \E outcome \in HttpOutcomes(call[c].cur, call[c].req.op) :
          LET k  == call[c]
              what == IF outcome.kind # "reply" THEN "failed"
                      ELSE IF BodyMalformed(k.cur.kind, k.req.op, outcome.data) THEN "malformed"
                      ELSE "ok"
              k1 == [k EXCEPT !.log = Append(@, Ev("http", k.stage, k.cur.id, what))]
          IN  call' = [call EXCEPT ![c] =
                          IF outcome.kind # "reply"
                          THEN ProviderThrew(k1, now)
                          ELSE LET r == ParseResponse(k.cur, k.req.op, outcome.data)
                               IN  IF r.threw
                                   THEN ProviderThrew(k1, now)
                                   ELSE [k1 EXCEPT !.pc = "set", !.pending = r.value]]
    /\ UNCHANGED <<bridgeVars, cacheVars, parseVars, deleteVars, rateVars, scanVars, lateVars>>

\* await cache.set(cacheKey, result, ttl); return result
\* (open: the Redis client is connected and the command succeeds)
ProviderCacheSet(c, open) ==
    /\ call[c].pc = "set"
    /\ LET k   == call[c]
           key == generateCacheKey(k.cur, KeyText(k.req), k.req.op)
           set  == CacheSetCompletion(open)
           what == IF set.threw THEN "threw"
                   ELSE IF open THEN "stored" ELSE "dropped"
           k1  == [k EXCEPT !.log = Append(@, Ev("set", k.stage, k.cur.id, what))]
       IN  /\ store' = CacheSet(open, store, key, k.pending, TTLOf(k.req.op), now)
           /\ call' = [call EXCEPT ![c] =
                          IF set.threw
                          THEN ProviderThrew(k1, now)
                          ELSE Settle(k1, Return(k.pending), now)]
    /\ UNCHANGED <<bridgeVars, now, parseVars, deleteVars, rateVars, scanVars, lateVars>>

\* time passes, in steps of TickSeconds.  A call in flight lasts two provider
\* requests of at most 30 s (the axios timeout) and a few cache commands, far
\* less than one step, so the clock steps between calls
Tick ==
    /\ now < MaxTicks * TickSeconds
    /\ \A c \in Calls : call[c].pc \in {"idle", "done"}
    /\ now' = now + TickSeconds
    /\ UNCHANGED <<bridgeVars, store, call, parseVars, deleteVars, rateVars, scanVars, lateVars>>

Next ==
    \/ \E c \in Calls, request \in Requests : Start(c, request)
    \/ \E c \in Calls, open \in BOOLEAN : ProviderCacheGet(c, open)
    \/ \E c \in Calls : ProviderHttp(c)
    \/ \E c \in Calls, open \in BOOLEAN : ProviderCacheSet(c, open)
    \/ Tick

Spec == Init /\ [][Next]_vars

(***************************************************************************)
(* The cache under every caller: bridge calls together with cache.delete   *)
(* of any key.  The clock stands still: expiry plays no part here.         *)
(***************************************************************************)
\* await cache.delete(key)
CacheDeleteKey(key, open) ==
    /\ store' = CacheDelete(open, store, key)
    /\ cacheOut' = CacheDeleteCompletion(open)
    /\ UNCHANGED <<bridgeVars, now, call, parseVars, rateVars, scanVars, lateVars>>

NextCache ==
    \/ \E c \in Calls, request \in Requests : Start(c, request)
    \/ \E c \in Calls, open \in BOOLEAN : ProviderCacheGet(c, open)
    \/ \E c \in Calls : ProviderHttp(c)
    \/ \E c \in Calls, open \in BOOLEAN : ProviderCacheSet(c, open)
    \/ \E key \in AllKeys, open \in BOOLEAN : CacheDeleteKey(key, open)

SpecCache == Init /\ [][NextCache]_vars

(***************************************************************************)
(* The rate limiter (redis.js, rateLimit.checkLimit): a sliding window     *)
(* kept in one sorted set per identifier, scored by the time of the        *)
(* request in milliseconds.                                                *)
(***************************************************************************)
MaxRateTicks == 2

MaxCard == 2

Limits == {1, 2}

Windows == {1, 2}

\* how client.multi()...exec() can go: the client is not open; exec rejects
\* before or after the server ran the commands; exec resolves with null or
\* with fewer than two replies; exec resolves with the four replies
ExecOutcomes == {"closed", "throws", "lost", "null", "short", "ok"}

\* the commands of the pipeline have run at the server
Applied(outcome) == outcome \in {"lost", "ok"}

\* the members of a key at a time: none once the key has expired
Members(zs, ze, id, time) == IF time >= ze[id] THEN <<>> ELSE zs[id]

ZRemRangeByScoreAll(members, max) == <<>>

\* zRemRangeByScore(key, '-inf', max)
ZRemRangeByScore(members, max) == SelectSeq(members, LAMBDA score : score > max)

\* what is left of the key after zRemRangeByScore, before zAdd
Kept(zs, ze, id, time, windowSeconds) ==
    ZRemRangeByScore(Members(zs, ze, id, time), time - windowSeconds * 1000)

\* await pipeline.exec()
PipelineExec(outcome, kept) ==
    CASE outcome \in {"closed", "throws", "lost"} -> Throw
      [] outcome = "null"  -> Return([kind |-> "null"])
      [] outcome = "short" -> Return([kind |-> "array", items |-> <<>>])
      [] outcome = "ok"    ->
            Return([kind |-> "array", items |-> <<0, Len(kept), 1, 1>>])

\* the try block of checkLimit
CheckLimitTry(outcome, kept, limit, windowSeconds, time) ==
    IF getRedisClient(outcome # "closed").threw THEN Throw
    ELSE LET exec == PipelineExec(outcome, kept)
         IN  IF exec.threw THEN Throw
             ELSE IF exec.value.kind = "null" \/ Len(exec.value.items) < 2 THEN Throw
             ELSE LET currentCount == exec.value.items[2]
                  IN  Return([allowed   |-> currentCount < limit,
                              remaining |-> IF limit - currentCount > 0
                                            THEN limit - currentCount ELSE 0,
                              resetTime |-> time + windowSeconds * 1000])

CheckLimitCatchDenies(limit, windowSeconds, time) ==
    Return([allowed |-> FALSE, remaining |-> 0, resetTime |-> time + windowSeconds * 1000])

\* the catch block of checkLimit: fail open
CheckLimitCatch(limit, windowSeconds, time) ==
    Return([allowed   |-> TRUE,
            remaining |-> limit,
            resetTime |-> time + windowSeconds * 1000])

checkLimit(outcome, kept, limit, windowSeconds, time) ==
    LET try == CheckLimitTry(outcome, kept, limit, windowSeconds, time)
    IN  IF try.threw THEN CheckLimitCatch(limit, windowSeconds, time) ELSE try

InitRate ==
    /\ providers = initializeProviders(DefaultConfig).providers
    /\ fallbackProvider = initializeProviders(DefaultConfig).fallbackProvider
    /\ store = [key \in AllKeys |-> NoEntry]
    /\ now = 0
    /\ call = [c \in Calls |-> IdleCall]
    /\ parseProv = NoProvider
    /\ parseData = NullBody
    /\ parseOut = NotParsed
    /\ cacheOut = NotRun
    /\ RateIdle
    /\ LateIdle
    /\ ScanIdle

\* await rateLimit.checkLimit(identifier, limit, windowSeconds): the return
\* value and what the pipeline did to the key
CheckLimitStep(identifier, limit, windowSeconds, outcome) ==
    LET kept == Kept(zset, zexp, identifier, rateNow, windowSeconds)
    IN  /\ rateIn' = [identifier |-> identifier, limit |-> limit,
                      windowSeconds |-> windowSeconds, outcome |-> outcome]
        /\ rateOut' = checkLimit(outcome, kept, limit, windowSeconds, rateNow)
        /\ IF Applied(outcome)
           THEN /\ zset' = [zset EXCEPT ![identifier] = Append(kept, rateNow)]
                /\ zexp' = [zexp EXCEPT ![identifier] = rateNow + windowSeconds * 1000]
           ELSE UNCHANGED <<zset, zexp>>
        /\ UNCHANGED <<rateNow, bridgeVars, cacheVars, call, parseVars, deleteVars,
                       scanVars, serviceVars>>

\* a call with any limit and window
CheckLimit(identifier, limit, windowSeconds, outcome) ==
    /\ Len(Kept(zset, zexp, identifier, rateNow, windowSeconds)) < MaxCard
    /\ CheckLimitStep(identifier, limit, windowSeconds, outcome)
    /\ UNCHANGED rateLog

\* a second passes
RateTick ==
    /\ rateNow < MaxRateTicks * 1000
    /\ rateNow' = rateNow + 1000
    /\ UNCHANGED <<zset, zexp, rateIn, rateOut, bridgeVars, cacheVars, call,
                   parseVars, deleteVars, scanVars, lateVars>>

NextRate ==
    \/ \E identifier \in Identifiers, limit \in Limits, windowSeconds \in Windows,
          outcome \in ExecOutcomes :
             CheckLimit(identifier, limit, windowSeconds, outcome)
    \/ RateTick

SpecRate == InitRate /\ [][NextRate]_vars

(***************************************************************************)
(* One limiter configuration: every checkLimit call uses the same limit    *)
(* and the same window (kept in rateIn), and the calls are logged with     *)
(* their returns.  A call is synchronous from Date.now() to exec(), and    *)
(* the one client sends the MULTI blocks in that order, so the calls reach *)
(* Redis in the order of their timestamps.                                 *)
(***************************************************************************)
MaxCalls == 4

InitWindow ==
    /\ providers = initializeProviders(DefaultConfig).providers
    /\ fallbackProvider = initializeProviders(DefaultConfig).fallbackProvider
    /\ store = [key \in AllKeys |-> NoEntry]
    /\ now = 0
    /\ call = [c \in Calls |-> IdleCall]
    /\ parseProv = NoProvider
    /\ parseData = NullBody
    /\ parseOut = NotParsed
    /\ cacheOut = NotRun
    /\ zset = [id \in Identifiers |-> <<>>]
    /\ zexp = [id \in Identifiers |-> 0]
    /\ rateNow = 0
    /\ \E limit \in Limits, windowSeconds \in Windows :
          rateIn = [NoCheck EXCEPT !.limit = limit, !.windowSeconds = windowSeconds]
    /\ rateOut = NotRun
    /\ LateIdle
    /\ ScanIdle

\* what the caller saw of one call
Logged(time, outcome, out) ==
    [time |-> time, ok |-> outcome = "ok", allowed |-> out.value.allowed,
     remaining |-> out.value.remaining]

\* the number of calls made so far
CallsMade == Len(rateLog["ip1"]) + Len(rateLog["ip2"])

LimitedCall(identifier, outcome) ==
    /\ CallsMade < MaxCalls
    /\ CheckLimitStep(identifier, rateIn.limit, rateIn.windowSeconds, outcome)
    /\ rateLog' = [rateLog EXCEPT ![identifier] = Append(@, Logged(rateNow, outcome, rateOut'))]

\* one way of each kind for exec to go: Redis unreachable, the reply lost
\* after the commands ran, the four replies
WindowOutcomes == {"closed", "lost", "ok"}

NextWindow ==
    \/ \E identifier \in Identifiers, outcome \in WindowOutcomes :
          LimitedCall(identifier, outcome)
    \/ RateTick

SpecWindow == InitWindow /\ [][NextWindow]_vars

(***************************************************************************)
(* PhishingDetector.detect and POST /api/scan.  The route is scan.js.  Of  *)
(* the detector only the declarations are in the sources: what the rules   *)
(* find in a request is an input here, and escalation and merge follow the *)
(* design (EscalationPolicy, ResultMerger).  Scores and confidences of the *)
(* detector are in thousandths.                                            *)
(***************************************************************************)
ScanRequests ==
    {[valid |-> FALSE, url |-> Undefined, orgId |-> Undefined],
     [valid |-> TRUE,  url |-> Undefined, orgId |-> Undefined],
     [valid |-> TRUE,  url |-> Str("https://example.test/login"), orgId |-> Str("org1")]}

LocalScores == {0, 290, 300, 500, 700, 900}

\* the local confidence follows the number of rules that matched
LocalConfidence(matched) ==
    CASE matched = 0 -> 200
      [] matched = 1 -> 500
      [] OTHER       -> 900

\* what runLocalAnalysis can find: a score, the number of rules that matched
\* and the reason strings of those that gave one (reason is optional in
\* PhishingRule.check); no rule matched means score 0 and no reason
LocalResults ==
    {[score |-> sc, matched |-> m, reasons |-> rs, confidence |-> LocalConfidence(m)] :
        sc \in LocalScores, m \in {0, 1, 3},
        rs \in {<<>>, <<"R">>, <<"Urgent language", "R">>}}
    \ {l \in [score : LocalScores, matched : {0, 1, 3},
              reasons : {<<>>, <<"R">>, <<"Urgent language", "R">>},
              confidence : {200, 500, 900}] :
          \/ Len(l.reasons) > l.matched
          \/ l.matched = 0 /\ l.score # 0}

getThresholdsHighIsReport(cfg) ==
    [low |-> cfg.lowThreshold, high |-> cfg.reportThreshold, report |-> cfg.reportThreshold]

\* getThresholds()
getThresholds(cfg) ==
    [low |-> cfg.lowThreshold, high |-> cfg.highThreshold, report |-> cfg.reportThreshold]

\* label assignment from the thresholds
LabelOf(score, th) ==
    IF score < th.low THEN "clean"
    ELSE IF score < th.high THEN "suspicious"
    ELSE "phishing"

\* the local score lies between the low and the high threshold
Ambiguous(local, th) == th.low <= local.score /\ local.score < th.high

DecisivelyClean(local, th) == local.score < th.low

DecisivelyPhishing(local, th) == local.score >= th.high

MinRulesMatched == 2

\* few or no rules matched
FewRules(local) == local.matched < MinRulesMatched

shouldUseCloudAnalysisNever(local, th, decisive) == FALSE

\* shouldUseCloudAnalysis: the ambiguous band escalates; outside it, few
\* matching rules escalate unless the decisive score is given precedence
shouldUseCloudAnalysis(local, th, decisive) ==
    IF Ambiguous(local, th) THEN TRUE
    ELSE FewRules(local) /\ ~decisive

RemoteWeightHigh == 7

RemoteWeightLow == 3

\* a remote score or confidence (tenths) clamped to [0, 1], in thousandths;
\* for a value that is no number any value of the range may stand
InRange(x) ==
    IF x.t = "number"
    THEN {IF x.v < 0 THEN 0 ELSE IF x.v > 10 THEN 1000 ELSE x.v * 100}
    ELSE {0, 500, 1000}

\* the normalized text of a reason: trimmed, lower case
NormalizeReason(r) ==
    CASE r = "R"               -> "r"
      [] r = "Urgent language" -> "urgent language"
      [] OTHER                 -> r

RECURSIVE Dedupe(_)
\* the reasons without those whose normalized text occurred before
Dedupe(rs) ==
    IF rs = <<>> THEN <<>>
    ELSE LET front == Dedupe(SubSeq(rs, 1, Len(rs) - 1))
             last  == rs[Len(rs)]
         IN  IF \E i \in 1 .. Len(front) : NormalizeReason(front[i]) = NormalizeReason(last)
             THEN front
             ELSE Append(front, last)

\* the result of detect when no escalation occurred
LocalOnly(local, th) ==
    [score      |-> local.score,
     label      |-> LabelOf(local.score, th),
     reasons    |-> local.reasons,
     confidence |-> local.confidence,
     localAnalysis |-> TRUE,
     requiresCloudAnalysis |-> FALSE]

\* mergeResults(localResult, cloudResult), given the remote score and
\* confidence after clamping
mergeResults(local, cloud, remoteScore, remoteConfidence, th) ==
    LET remoteWeight == IF remoteConfidence > local.confidence
                        THEN RemoteWeightHigh ELSE RemoteWeightLow
        score == ((10 - remoteWeight) * local.score + remoteWeight * remoteScore) \div 10
    IN  [score      |-> score,
         label      |-> LabelOf(score, th),
         reasons    |-> Dedupe(local.reasons \o cloud.reasons),
         confidence |-> IF remoteConfidence > local.confidence
                        THEN remoteConfidence ELSE local.confidence,
         localAnalysis |-> FALSE,
         requiresCloudAnalysis |-> TRUE]

\* Math.round(x * 100) / 100
Round2(x) == ((x + 5) \div 10) * 10

\* generateExplanation(result): the sentence chosen and the reasons it quotes
generateExplanation(result) ==
    CASE result.label = "clean"      -> [sentence |-> "legitimate", quoted |-> <<>>]
      [] result.label = "suspicious" ->
            [sentence |-> "suspicious",
             quoted   |-> SubSeq(result.reasons, 1,
                                 IF Len(result.reasons) < 2 THEN Len(result.reasons) ELSE 2)]
      [] result.label = "phishing"   ->
            [sentence |-> "phishing",
             quoted   |-> SubSeq(result.reasons, 1,
                                 IF Len(result.reasons) < 3 THEN Len(result.reasons) ELSE 3)]
      [] OTHER -> [sentence |-> "undetermined", quoted |-> <<>>]

AnalysisTypeInverted(result) == IF result.localAnalysis THEN "hybrid" ELSE "local"

\* analysis_type: detectionResult.localAnalysis ? 'local' : 'hybrid'
AnalysisType(result) == IF result.localAnalysis THEN "local" ELSE "hybrid"

ShouldLogAlways(result) == TRUE

\* if (detectionResult.label !== 'clean')
ShouldLog(result) == result.label # "clean"

\* securityLogger.logPhishingDetection(score, metadata?.url || 'unknown', reasons, metadata?.orgId)
LogCall(result, req) ==
    [score |-> result.score, url |-> OrElse(req.url, Str("unknown")),
     reasons |-> result.reasons, orgId |-> req.orgId]

\* the body of the success response
ScanResponse(result) ==
    [status        |-> 200,
     score         |-> Round2(result.score),
     label         |-> result.label,
     reasons       |-> result.reasons,
     explain       |-> generateExplanation(result),
     confidence    |-> Round2(result.confidence),
     analysis_type |-> AnalysisType(result)]

\* the request detect sends through the bridge
CloudRequest == [op |-> "analysis", text |-> "a"]

InitScan ==
    /\ \E config \in Configs :
          /\ providers = initializeProviders(config).providers
          /\ fallbackProvider = initializeProviders(config).fallbackProvider
    /\ store = [key \in AllKeys |-> NoEntry]
    /\ now = 0
    /\ call = [c \in Calls |-> IdleCall]
    /\ parseProv = NoProvider
    /\ parseData = NullBody
    /\ parseOut = NotParsed
    /\ cacheOut = NotRun
    /\ RateIdle
    /\ LateIdle
    /\ thresholdsConfig \in ThresholdConfigs
    /\ decisiveWins \in BOOLEAN
    /\ scan = IdleScan

\* POST /api/scan arrives: validation, then detect up to its decision to
\* escalate.  fault: an unexpected exception inside detect, which rejects
ScanReceive(request, local, fault) ==
    /\ scan.pc = "idle"
    /\ scan' =
          IF ~request.valid
          THEN [scan EXCEPT !.pc = "done", !.req = request,
                            !.response = [status |-> 400]]
          ELSE IF fault
          THEN [scan EXCEPT !.pc = "done", !.req = request, !.outcome = Throw,
                            !.response = [status |-> 500]]
          ELSE IF shouldUseCloudAnalysis(local, getThresholds(thresholdsConfig), decisiveWins)
          THEN [scan EXCEPT !.pc = "cloud", !.req = request, !.local = local,
                            !.escalated = TRUE]
          ELSE [scan EXCEPT !.pc = "detected", !.req = request, !.local = local,
                            !.outcome = Return(LocalOnly(local, getThresholds(thresholdsConfig)))]
    /\ UNCHANGED <<thresholdsConfig, decisiveWins, bridgeVars, cacheVars, call,
                   parseVars, deleteVars, rateVars, lateVars>>

\* runCloudAnalysis: modelBridge.analyzeText is called
RunCloudAnalysis ==
    /\ scan.pc = "cloud"
    /\ Start("c1", CloudRequest)

\* the bridge call has settled: mergeResults, detect resolves (a rejected
\* bridge call would reject detect and end in the 500 response)
MergeResults ==
    /\ scan.pc = "cloud"
    /\ call["c1"].pc = "done"
    /\ IF call["c1"].settled = "rejected"
       THEN scan' = [scan EXCEPT !.pc = "done", !.outcome = Throw,
                                 !.response = [status |-> 500]]
       ELSE \E remoteScore \in InRange(call["c1"].result.score),
               remoteConfidence \in InRange(call["c1"].result.confidence) :
               scan' = [scan EXCEPT
                          !.pc = "detected",
                          !.outcome = Return(mergeResults(scan.local, call["c1"].result,
                                                 remoteScore, remoteConfidence,
                                                 getThresholds(thresholdsConfig)))]
    /\ UNCHANGED <<thresholdsConfig, decisiveWins, bridgeVars, cacheVars, call,
                   parseVars, deleteVars, rateVars, lateVars>>

\* the handler after detect resolved: the security log, the two writes that
\* are not awaited, the response
ScanRespond ==
    /\ scan.pc = "detected"
    /\ LET result == scan.outcome.value
       IN  scan' = [scan EXCEPT
                      !.pc = "done",
                      !.logged = IF ShouldLog(result)
                                 THEN Append(@, LogCall(result, scan.req)) ELSE @,
                      !.stored = "pending",
                      !.recorded = "pending",
                      !.response = ScanResponse(result)]
    /\ UNCHANGED <<thresholdsConfig, decisiveWins, bridgeVars, cacheVars, call,
                   parseVars, deleteVars, rateVars, lateVars>>

\* storeScanResult / recordAnalyticsEvent as async functions: the query
\* resolves, or it rejects, the catch block logs and throws the error again
PersistenceCompletion(ok) == IF ok THEN Return(Undefined) ELSE Throw

PersistenceCatchMissing(completion) == IF completion.threw THEN "unhandled" ELSE "ok"

\* .catch(error => logger.error(...)) on the promise that is not awaited
PersistenceCatch(completion) == IF completion.threw THEN "failed" ELSE "ok"

\* storeScanResult(...) settles; a rejection is logged by its .catch
StoreSettles(ok) ==
    /\ scan.stored = "pending"
    /\ scan' = [scan EXCEPT !.stored = PersistenceCatch(PersistenceCompletion(ok))]
    /\ UNCHANGED <<thresholdsConfig, decisiveWins, bridgeVars, cacheVars, call,
                   parseVars, deleteVars, rateVars, lateVars>>

\* recordAnalyticsEvent(...) settles; a rejection is logged by its .catch
AnalyticsSettles(ok) ==
    /\ scan.recorded = "pending"
    /\ scan' = [scan EXCEPT !.recorded = PersistenceCatch(PersistenceCompletion(ok))]
    /\ UNCHANGED <<thresholdsConfig, decisiveWins, bridgeVars, cacheVars, call,
                   parseVars, deleteVars, rateVars, lateVars>>

NextScan ==
    \/ \E request \in ScanRequests, local \in LocalResults, fault \in BOOLEAN :
          ScanReceive(request, local, fault)
    \/ RunCloudAnalysis
    \/ \E open \in BOOLEAN : ProviderCacheGet("c1", open)
    \/ ProviderHttp("c1")
    \/ \E open \in BOOLEAN : ProviderCacheSet("c1", open)
    \/ MergeResults
    \/ ScanRespond
    \/ \E ok \in BOOLEAN : StoreSettles(ok)
    \/ \E ok \in BOOLEAN : AnalyticsSettles(ok)

SpecScan == InitScan /\ [][NextScan]_vars

(***************************************************************************)
(* The start of the backend process: config.ts builds the exported config  *)
(* from process.env, index.js starts the server.                           *)
(***************************************************************************)
MaxServed == 1

\* values of LOW_THRESHOLD, HIGH_THRESHOLD and REPORT_THRESHOLD in process.env
EnvThresholds == {Undefined, Str(""), Str("0.3"), Str("0.7"), Str("0.8"), Str("abc")}

\* values of MODEL_PROVIDER in process.env
EnvProviders == {Undefined, Str("gemini"), Str("bogus")}

\* values of DATABASE_URL in process.env
EnvDatabaseUrls == {Undefined, Str("postgresql://db"), Str("https://x.supabase.co")}

Environments ==
    [JWT_SECRET : {Undefined, Str("secret")},
     DATABASE_URL : EnvDatabaseUrls,
     SUPABASE_KEYS : BOOLEAN,
     MODEL_PROVIDER : EnvProviders,
     LOW_THRESHOLD : EnvThresholds,
     HIGH_THRESHOLD : EnvThresholds,
     REPORT_THRESHOLD : EnvThresholds]

\* parseFloat on the strings of the model, in tenths
parseFloat(x) ==
    CASE x.s = "0.3" -> Num(3)
      [] x.s = "0.7" -> Num(7)
      [] x.s = "0.8" -> Num(8)
      [] OTHER       -> NaN

\* a >= b on JavaScript numbers: false as soon as one operand is NaN
JsGe(a, b) == a.t = "number" /\ b.t = "number" /\ a.v >= b.v

\* a < b on JavaScript numbers: false as soon as one operand is NaN
JsLt(a, b) == a.t = "number" /\ b.t = "number" /\ a.v < b.v

\* parseFloat(process.env.X || default)
EnvFloat(x, default) == parseFloat(OrElse(x, Str(default)))

\* required.filter(key => !process.env[key]).length > 0
MissingRequired(env) ==
    \/ Falsy(env.JWT_SECRET)
    \/ Falsy(env.DATABASE_URL)
    \/ env.DATABASE_URL = Str("https://x.supabase.co") /\ ~env.SUPABASE_KEYS

\* modelProvider && !['gemini', 'openai', 'local'].includes(modelProvider)
InvalidProvider(env) ==
    ~Falsy(env.MODEL_PROVIDER) /\ env.MODEL_PROVIDER.s \notin {"gemini", "openai", "local"}

\* lowThreshold >= highThreshold || highThreshold >= reportThreshold
InvalidThresholds(env) ==
    LET lowThreshold    == EnvFloat(env.LOW_THRESHOLD, "0.3")
        highThreshold   == EnvFloat(env.HIGH_THRESHOLD, "0.7")
        reportThreshold == EnvFloat(env.REPORT_THRESHOLD, "0.8")
    IN  JsGe(lowThreshold, highThreshold) \/ JsGe(highThreshold, reportThreshold)

validateConfig(env) ==
    IF MissingRequired(env) \/ InvalidProvider(env) \/ InvalidThresholds(env)
    THEN Throw
    ELSE Return(Undefined)

\* the object the module exports (the fields the model reads)
LoadedConfig(env) ==
    [modelProvider   |-> OrElse(env.MODEL_PROVIDER, Str("gemini")).s,
     lowThreshold    |-> EnvFloat(env.LOW_THRESHOLD, "0.3"),
     highThreshold   |-> EnvFloat(env.HIGH_THRESHOLD, "0.7"),
     reportThreshold |-> EnvFloat(env.REPORT_THRESHOLD, "0.8")]

NoConfig ==
    [modelProvider |-> "", lowThreshold |-> Undefined, highThreshold |-> Undefined,
     reportThreshold |-> Undefined]

InitBoot ==
    /\ providers = initializeProviders(DefaultConfig).providers
    /\ fallbackProvider = initializeProviders(DefaultConfig).fallbackProvider
    /\ store = [key \in AllKeys |-> NoEntry]
    /\ now = 0
    /\ call = [c \in Calls |-> IdleCall]
    /\ parseProv = NoProvider
    /\ parseData = NullBody
    /\ parseOut = NotParsed
    /\ cacheOut = NotRun
    /\ RateIdle
    /\ ScanIdle
    /\ \E env \in Environments :
          boot = [pc |-> "start", env |-> env, config |-> NoConfig, exitCode |-> 0,
                  served |-> 0]
    /\ sessions = NoSessions
    /\ configService = NoConfigService
    /\ analyticsService = NoAnalyticsService
    /\ pgClient = NoClient
    /\ rateLog = NoRateLog

\* export const config = (() => { try { validateConfig(); return {...} }
\*                                catch { process.exit(1) } })()
LoadConfig ==
    /\ boot.pc = "start"
    /\ boot' = IF validateConfig(boot.env).threw
               THEN [boot EXCEPT !.pc = "exited", !.exitCode = 1]
               ELSE [boot EXCEPT !.pc = "loaded", !.config = LoadedConfig(boot.env)]
    /\ UNCHANGED <<bridgeVars, cacheVars, call, parseVars, deleteVars, rateVars, scanVars,
                   sessions, configService, analyticsService, pgClient, rateLog>>

\* server.start(): the database and Redis connect and the server listens, or
\* the failure ends the process with code 1
StartServer(ok) ==
    /\ boot.pc = "loaded"
    /\ boot' = IF ok THEN [boot EXCEPT !.pc = "listening"]
               ELSE [boot EXCEPT !.pc = "exited", !.exitCode = 1]
    /\ UNCHANGED <<bridgeVars, cacheVars, call, parseVars, deleteVars, rateVars, scanVars,
                   sessions, configService, analyticsService, pgClient, rateLog>>

\* the listening server serves a request
ServeRequest ==
    /\ boot.pc = "listening"
    /\ boot.served < MaxServed
    /\ boot' = [boot EXCEPT !.served = @ + 1]
    /\ UNCHANGED <<bridgeVars, cacheVars, call, parseVars, deleteVars, rateVars, scanVars,
                   sessions, configService, analyticsService, pgClient, rateLog>>

NextBoot ==
    \/ LoadConfig
    \/ \E ok \in BOOLEAN : StartServer(ok)
    \/ ServeRequest

SpecBoot == InitBoot /\ [][NextBoot]_vars

\* the bridge, the cache, the limiter and the scan route at rest
CoreIdle ==
    /\ providers = initializeProviders(DefaultConfig).providers
    /\ fallbackProvider = initializeProviders(DefaultConfig).fallbackProvider
    /\ store = [key \in AllKeys |-> NoEntry]
    /\ now = 0
    /\ call = [c \in Calls |-> IdleCall]
    /\ parseProv = NoProvider
    /\ parseData = NullBody
    /\ parseOut = NotParsed
    /\ cacheOut = NotRun
    /\ RateIdle
    /\ ScanIdle
    /\ rateLog = NoRateLog

(***************************************************************************)
(* POST /api/chat and the messages of one chat session (routes/chat.js).   *)
(* Two requests for the same session are in flight; each await of a        *)
(* handler is a step.                                                      *)
(***************************************************************************)
\* messages.slice(-20)
SessionLimit == 20

ChatPosts == {"p1", "p2"}

\* the lengths of the message list a stored session starts with
StoredLengths == {0, 19, 20}

\* the i-th message of an earlier exchange
OldMessage(i) == [role |-> "user", content |-> "earlier", n |-> i]

\* { role, content, timestamp }: the message a request adds in a role
Message(post, role) == [role |-> role, content |-> post, n |-> 0]

\* Array.prototype.slice(-n)
SliceLast(messages, n) ==
    IF Len(messages) <= n THEN messages
    ELSE SubSeq(messages, Len(messages) - n + 1, Len(messages))

IdlePost == [pc |-> "idle", read |-> <<>>, returned |-> {}, status |-> 0]

\* the message the handler is adding at its position
RoleAt(pc) == IF pc \in {"select1", "update1"} THEN "user" ELSE "assistant"

InitChat ==
    /\ CoreIdle
    /\ boot = NotBooted
    /\ \E n \in StoredLengths, exists \in BOOLEAN :
          sessions = [pc |-> "serving",
                      exists |-> exists,
                      messages |-> IF exists THEN [i \in 1 .. n |-> OldMessage(i)] ELSE <<>>,
                      added |-> <<>>,
                      post |-> [q \in ChatPosts |-> IdlePost]]
    /\ configService = NoConfigService
    /\ analyticsService = NoAnalyticsService
    /\ pgClient = NoClient

\* the handler fails: catch (error) of the route answers 500
PostFailed(q) == [sessions EXCEPT !.post[q].pc = "done", !.post[q].status = 500]

\* await getOrCreateChatSession(...): the row is selected, or inserted with
\* no messages
GetOrCreateChatSession(q, ok) ==
    /\ sessions.pc = "serving"
    /\ sessions.post[q].pc = "idle"
    /\ sessions' = IF ~ok THEN PostFailed(q)
                   ELSE [sessions EXCEPT !.exists = TRUE, !.post[q].pc = "select1"]
    /\ UNCHANGED <<bridgeVars, cacheVars, call, parseVars, deleteVars, rateVars, scanVars,
                   boot, configService, analyticsService, pgClient, rateLog>>

\* addMessageToSession, first await: SELECT messages FROM chat_sessions
SelectMessages(q, ok) ==
    /\ sessions.pc = "serving"
    /\ sessions.post[q].pc \in {"select1", "select2"}
    /\ sessions' =
          IF ~ok \/ ~sessions.exists THEN PostFailed(q)
          ELSE [sessions EXCEPT
                  !.post[q].read = sessions.messages,
                  !.post[q].pc = IF @ = "select1" THEN "update1" ELSE "update2"]
    /\ UNCHANGED <<bridgeVars, cacheVars, call, parseVars, deleteVars, rateVars, scanVars,
                   boot, configService, analyticsService, pgClient, rateLog>>

\* addMessageToSession, second await: messages.push(...), slice(-20),
\* UPDATE chat_sessions SET messages = $1; then the call returns
UpdateMessages(q, ok) ==
    /\ sessions.pc = "serving"
    /\ sessions.post[q].pc \in {"update1", "update2"}
    /\ LET message == Message(q, RoleAt(sessions.post[q].pc))
           trimmedMessages == SliceLast(Append(sessions.post[q].read, message), SessionLimit)
       IN  sessions' =
              IF ~ok THEN PostFailed(q)
              ELSE [sessions EXCEPT
                      !.messages = trimmedMessages,
                      !.added = Append(@, message),
                      !.post[q].returned = @ \cup {message},
                      !.post[q].pc = IF @ = "update1" THEN "chat" ELSE "respond"]
    /\ UNCHANGED <<bridgeVars, cacheVars, call, parseVars, deleteVars, rateVars, scanVars,
                   boot, configService, analyticsService, pgClient, rateLog>>

\* await buildChatContext(...) and await modelBridge.chat(...)
ChatAnswered(q, ok) ==
    /\ sessions.pc = "serving"
    /\ sessions.post[q].pc = "chat"
    /\ sessions' = IF ~ok THEN PostFailed(q)
                   ELSE [sessions EXCEPT !.post[q].pc = "select2"]
    /\ UNCHANGED <<bridgeVars, cacheVars, call, parseVars, deleteVars, rateVars, scanVars,
                   boot, configService, analyticsService, pgClient, rateLog>>

\* res.json(response)
ChatRespond(q) ==
    /\ sessions.pc = "serving"
    /\ sessions.post[q].pc = "respond"
    /\ sessions' = [sessions EXCEPT !.post[q].pc = "done", !.post[q].status = 200]
    /\ UNCHANGED <<bridgeVars, cacheVars, call, parseVars, deleteVars, rateVars, scanVars,
                   boot, configService, analyticsService, pgClient, rateLog>>

NextChat ==
    \E q \in ChatPosts :
        \/ \E ok \in BOOLEAN : GetOrCreateChatSession(q, ok)
        \/ \E ok \in BOOLEAN : SelectMessages(q, ok)
        \/ \E ok \in BOOLEAN : UpdateMessages(q, ok)
        \/ \E ok \in BOOLEAN : ChatAnswered(q, ok)
        \/ ChatRespond(q)

SpecChat == InitChat /\ [][NextChat]_vars

(***************************************************************************)
(* ConfigService of the extension (services/config.js) over               *)
(* StorageService (services/storage.js).  Thresholds are in tenths; a      *)
(* field that is Undefined is a key the object does not have.              *)
(***************************************************************************)
ThresholdKeys == {"lowThreshold", "highThreshold", "reportThreshold"}

\* ConfigService.defaultConfig
defaultConfig ==
    [lowThreshold |-> Num(3), highThreshold |-> Num(7), reportThreshold |-> Num(8)]

\* the values an update gives a threshold: none, or a number
UpdateValues == {Undefined, Num(3), Num(7), Num(9), Num(15)}

Updates == [ThresholdKeys -> UpdateValues]

\* { ...a, ...b }; spreading undefined or null adds nothing
Spread(a, b) ==
    IF b \in {Undefined, JNull} THEN a
    ELSE [k \in ThresholdKeys |-> IF b[k] = Undefined THEN a[k] ELSE b[k]]

\* a ?? b
Coalesce(a, b) == IF a \in {Undefined, JNull} THEN b ELSE a

\* StorageService.get('config'): result[key], or null when storage fails
StorageGet(stored, ok) == IF ok THEN stored ELSE JNull

\* the range check of one threshold
OutOfRange(x, message) ==
    IF x # Undefined /\ (JsLt(x, Num(0)) \/ JsLt(Num(10), x)) THEN <<message>> ELSE <<>>

\* ConfigService.validateConfig(config): the list of errors
ValidateConfig(c) ==
    LET low    == Coalesce(c.lowThreshold, defaultConfig.lowThreshold)
        high   == Coalesce(c.highThreshold, defaultConfig.highThreshold)
        report == Coalesce(c.reportThreshold, defaultConfig.reportThreshold)
    IN  OutOfRange(c.lowThreshold, "Low threshold must be between 0 and 1")
        \o OutOfRange(c.highThreshold, "High threshold must be between 0 and 1")
        \o OutOfRange(c.reportThreshold, "Report threshold must be between 0 and 1")
        \o (IF JsGe(low, high)
            THEN <<"Low threshold must be less than high threshold">> ELSE <<>>)
        \o (IF JsGe(high, report)
            THEN <<"High threshold must be less than report threshold">> ELSE <<>>)

\* ConfigService.getConfig()
getConfig(stored, ok) == Spread(defaultConfig, StorageGet(stored, ok))

InitConfigService ==
    /\ CoreIdle
    /\ boot = NotBooted
    /\ sessions = NoSessions
    /\ configService = [pc |-> "ready", stored |-> Undefined, out |-> NotRun,
                        got |-> Undefined]
    /\ analyticsService = NoAnalyticsService
    /\ pgClient = NoClient

\* await ConfigService.getConfig()
GetConfig(getOk) ==
    /\ configService.pc = "ready"
    /\ configService' = [configService EXCEPT
                            !.got = getConfig(configService.stored, getOk),
                            !.out = Return(Undefined)]
    /\ UNCHANGED <<bridgeVars, cacheVars, call, parseVars, deleteVars, rateVars, scanVars,
                   boot, sessions, analyticsService, pgClient, rateLog>>

\* await ConfigService.updateConfig(updates)
UpdateConfig(updates, getOk, setOk) ==
    /\ configService.pc = "ready"
    /\ LET currentConfig == getConfig(configService.stored, getOk)
           newConfig == Spread(currentConfig, updates)
       IN  configService' =
              IF setOk
              THEN [configService EXCEPT !.stored = newConfig, !.out = Return(Undefined),
                                         !.got = Undefined]
              ELSE [configService EXCEPT !.out = Throw, !.got = Undefined]
    /\ UNCHANGED <<bridgeVars, cacheVars, call, parseVars, deleteVars, rateVars, scanVars,
                   boot, sessions, analyticsService, pgClient, rateLog>>

\* await ConfigService.setDefaults()
SetDefaults(getOk, setOk) ==
    /\ configService.pc = "ready"
    /\ LET existing == StorageGet(configService.stored, getOk)
       IN  configService' =
              IF existing \notin {Undefined, JNull}
              THEN [configService EXCEPT !.out = Return(Undefined), !.got = Undefined]
              ELSE IF setOk
              THEN [configService EXCEPT !.stored = defaultConfig,
                                         !.out = Return(Undefined), !.got = Undefined]
              ELSE [configService EXCEPT !.out = Throw, !.got = Undefined]
    /\ UNCHANGED <<bridgeVars, cacheVars, call, parseVars, deleteVars, rateVars, scanVars,
                   boot, sessions, analyticsService, pgClient, rateLog>>

\* await ConfigService.resetToDefaults()
ResetToDefaults(setOk) ==
    /\ configService.pc = "ready"
    /\ configService' =
          IF setOk
          THEN [configService EXCEPT !.stored = defaultConfig, !.out = Return(Undefined),
                                     !.got = Undefined]
          ELSE [configService EXCEPT !.out = Throw, !.got = Undefined]
    /\ UNCHANGED <<bridgeVars, cacheVars, call, parseVars, deleteVars, rateVars, scanVars,
                   boot, sessions, analyticsService, pgClient, rateLog>>

NextConfigService ==
    \/ \E getOk \in BOOLEAN : GetConfig(getOk)
    \/ \E updates \in Updates, getOk, setOk \in BOOLEAN : UpdateConfig(updates, getOk, setOk)
    \/ \E getOk, setOk \in BOOLEAN : SetDefaults(getOk, setOk)
    \/ \E setOk \in BOOLEAN : ResetToDefaults(setOk)

SpecConfigService == InitConfigService /\ [][NextConfigService]_vars

(***************************************************************************)
(* AnalyticsService of the extension (services/analytics.js): the static   *)
(* pendingEvents array, trackEvent and syncPendingEvents.  Events are      *)
(* numbered in the order trackEvent creates them.                          *)
(***************************************************************************)
MaxEvents == 3

Events == 1 .. MaxEvents

Syncs == {"s1", "s2"}

IdleSync ==
    [pc |-> "idle", events |-> <<>>, taken |-> {}, queued |-> {}, alone |-> TRUE,
     endPending |-> <<>>, endSent |-> [e \in Events |-> 0]]

InitAnalytics ==
    /\ CoreIdle
    /\ boot = NotBooted
    /\ sessions = NoSessions
    /\ configService = NoConfigService
    /\ analyticsService = [pc |-> "ready",
                           pendingEvents |-> <<>>,
                           sent |-> [e \in Events |-> 0],
                           tracked |-> 0,
                           sync |-> [y \in Syncs |-> IdleSync]]
    /\ pgClient = NoClient

Running(a) == {y \in Syncs : a.sync[y].pc = "running"}

\* await this.sendEvent(event) resolved
Sent(sent, e) == [sent EXCEPT ![e] = @ + 1]

SyncCatchDrops(pendingEvents, e) == pendingEvents

\* catch (error) in the loop of syncPendingEvents: this.pendingEvents.push(event)
SyncCatch(pendingEvents, e) == Append(pendingEvents, e)

\* the sync returns: what it leaves behind
Finish(a, y) ==
    [a EXCEPT !.sync[y].pc = "done",
              !.sync[y].endPending = a.pendingEvents,
              !.sync[y].endSent = a.sent]

\* trackEvent(...): the event is stored, then sent; when the send fails the
\* event is pushed on pendingEvents
TrackEvent(sendOk) ==
    /\ analyticsService.pc = "ready"
    /\ analyticsService.tracked < MaxEvents
    /\ LET a == analyticsService
           e == a.tracked + 1
       IN  analyticsService' =
              IF sendOk
              THEN [a EXCEPT !.tracked = e, !.sent = Sent(@, e)]
              ELSE [a EXCEPT !.tracked = e,
                             !.pendingEvents = Append(@, e),
                             !.sync = [y \in Syncs |->
                                         IF y \in Running(a)
                                         THEN [@[y] EXCEPT !.queued = @ \cup {e}]
                                         ELSE @[y]]]
    /\ UNCHANGED <<bridgeVars, cacheVars, call, parseVars, deleteVars, rateVars, scanVars,
                   boot, sessions, configService, pgClient, rateLog>>

\* syncPendingEvents() up to its first await: the pending events are copied
\* and pendingEvents is replaced by an empty array; with nothing to send the
\* call returns
SyncStart(y) ==
    /\ analyticsService.pc = "ready"
    /\ analyticsService.sync[y].pc = "idle"
    /\ LET a == analyticsService
           events == a.pendingEvents
           others == Running(a)
           a1 == [a EXCEPT !.pendingEvents = <<>>,
                           !.sync = [z \in Syncs |->
                                       IF z = y
                                       THEN [@[z] EXCEPT
                                               !.pc = "running",
                                               !.events = events,
                                               !.taken = {events[i] : i \in 1 .. Len(events)},
                                               !.alone = others = {}]
                                       ELSE IF z \in others
                                       THEN [@[z] EXCEPT !.alone = FALSE]
                                       ELSE @[z]]]
       IN  analyticsService' = IF events = <<>> THEN Finish(a1, y) ELSE a1
    /\ UNCHANGED <<bridgeVars, cacheVars, call, parseVars, deleteVars, rateVars, scanVars,
                   boot, sessions, configService, pgClient, rateLog>>

\* one turn of the loop: await this.sendEvent(event) settles; after the
\* last event the call returns
SyncSend(y, sendOk) ==
    /\ analyticsService.pc = "ready"
    /\ analyticsService.sync[y].pc = "running"
    /\ LET a == analyticsService
           e == Head(a.sync[y].events)
           a1 == IF sendOk
                 THEN [a EXCEPT !.sent = Sent(@, e), !.sync[y].events = Tail(@)]
                 ELSE [a EXCEPT !.pendingEvents = SyncCatch(@, e),
                                !.sync[y].events = Tail(@)]
       IN  analyticsService' = IF a1.sync[y].events = <<>> THEN Finish(a1, y) ELSE a1
    /\ UNCHANGED <<bridgeVars, cacheVars, call, parseVars, deleteVars, rateVars, scanVars,
                   boot, sessions, configService, pgClient, rateLog>>

NextAnalytics ==
    \/ \E sendOk \in BOOLEAN : TrackEvent(sendOk)
    \/ \E y \in Syncs : SyncStart(y)
    \/ \E y \in Syncs, sendOk \in BOOLEAN : SyncSend(y, sendOk)

SpecAnalytics == InitAnalytics /\ [][NextAnalytics]_vars

(***************************************************************************)
(* transaction(callback) of config/database.ts.  Two transactions run at   *)
(* once, each on its own client of the pool; each await is a step.         *)
(***************************************************************************)
Transactions == {"t1", "t2"}

\* a promise rejected with the error of the named operation
Rejected(error) == [threw |-> TRUE, error |-> error]

\* the promise resolved with the result of the callback
Resolved == [threw |-> FALSE, error |-> "none"]

Pending == [threw |-> FALSE, error |-> "pending"]

IdleTransaction ==
    [pc |-> "idle", log |-> <<>>, error |-> "none", released |-> 0, out |-> Pending]

\* what client.query(...) or the callback did
Ran(stmt, ok) == [stmt |-> stmt, ok |-> ok]

InitTransaction ==
    /\ CoreIdle
    /\ boot = NotBooted
    /\ sessions = NoSessions
    /\ configService = NoConfigService
    /\ analyticsService = NoAnalyticsService
    /\ pgClient = [pc |-> "pool", tx |-> [t \in Transactions |-> IdleTransaction]]

\* finally { client.release() }
Finally(tx) == [tx EXCEPT !.released = @ + 1, !.log = Append(@, Ran("release", TRUE))]

\* an await of the try block threw: control is in the catch block
Caught(tx, stmt) ==
    [tx EXCEPT !.pc = "rollback", !.error = stmt, !.log = Append(@, Ran(stmt, FALSE))]

\* const client = await pool.connect()
Connect(t, ok) ==
    /\ pgClient.pc = "pool"
    /\ pgClient.tx[t].pc = "idle"
    /\ pgClient' = IF ok THEN [pgClient EXCEPT !.tx[t].pc = "begin"]
                   ELSE [pgClient EXCEPT !.tx[t].pc = "done",
                                         !.tx[t].out = Rejected("connect")]
    /\ UNCHANGED <<bridgeVars, cacheVars, call, parseVars, deleteVars, rateVars, scanVars,
                   boot, sessions, configService, analyticsService, rateLog>>

\* await client.query('BEGIN')
Begin(t, ok) ==
    /\ pgClient.pc = "pool"
    /\ pgClient.tx[t].pc = "begin"
    /\ pgClient' = IF ok
                   THEN [pgClient EXCEPT !.tx[t].pc = "callback",
                                         !.tx[t].log = Append(@, Ran("BEGIN", TRUE))]
                   ELSE [pgClient EXCEPT !.tx[t] = Caught(@, "BEGIN")]
    /\ UNCHANGED <<bridgeVars, cacheVars, call, parseVars, deleteVars, rateVars, scanVars,
                   boot, sessions, configService, analyticsService, rateLog>>

\* const result = await callback(client)
Callback(t, ok) ==
    /\ pgClient.pc = "pool"
    /\ pgClient.tx[t].pc = "callback"
    /\ pgClient' = IF ok
                   THEN [pgClient EXCEPT !.tx[t].pc = "commit",
                                         !.tx[t].log = Append(@, Ran("callback", TRUE))]
                   ELSE [pgClient EXCEPT !.tx[t] = Caught(@, "callback")]
    /\ UNCHANGED <<bridgeVars, cacheVars, call, parseVars, deleteVars, rateVars, scanVars,
                   boot, sessions, configService, analyticsService, rateLog>>

\* await client.query('COMMIT'); return result (through finally)
Commit(t, ok) ==
    /\ pgClient.pc = "pool"
    /\ pgClient.tx[t].pc = "commit"
    /\ pgClient' =
          IF ok
          THEN [pgClient EXCEPT
                  !.tx[t] = Finally([@ EXCEPT !.pc = "done", !.out = Resolved,
                                              !.log = Append(@, Ran("COMMIT", TRUE))])]
          ELSE [pgClient EXCEPT !.tx[t] = Caught(@, "COMMIT")]
    /\ UNCHANGED <<bridgeVars, cacheVars, call, parseVars, deleteVars, rateVars, scanVars,
                   boot, sessions, configService, analyticsService, rateLog>>

\* catch (error) { await client.query('ROLLBACK'); throw error } (through
\* finally): a failing ROLLBACK throws its own error out of the catch block
Rollback(t, ok) ==
    /\ pgClient.pc = "pool"
    /\ pgClient.tx[t].pc = "rollback"
    /\ LET tx == pgClient.tx[t]
           thrown == IF ok THEN Rejected(tx.error) ELSE Rejected("ROLLBACK")
       IN  pgClient' =
              [pgClient EXCEPT
                 !.tx[t] = Finally([tx EXCEPT !.pc = "done",
                                              !.log = Append(@, Ran("ROLLBACK", ok)),
                                              !.out = thrown])]
    /\ UNCHANGED <<bridgeVars, cacheVars, call, parseVars, deleteVars, rateVars, scanVars,
                   boot, sessions, configService, analyticsService, rateLog>>

NextTransaction ==
    \E t \in Transactions, ok \in BOOLEAN :
        \/ Connect(t, ok)
        \/ Begin(t, ok)
        \/ Callback(t, ok)
        \/ Commit(t, ok)
        \/ Rollback(t, ok)

SpecTransaction == InitTransaction /\ [][NextTransaction]_vars

(***************************************************************************)
(* The response parsers on their own: a provider and a reply body are      *)
(* drawn, then the provider's parseAnalysisResponse is applied.            *)
(***************************************************************************)
NumberInputs == {Undefined, Num(-5), Num(0), Num(3), Num(10), Num(15), Str("high")}

LabelInputs ==
    {Undefined, Str("clean"), Str("suspicious"), Str("uncertain"), Str("phishing")}

ReasonsInputs == {Undefined, Arr(<<>>), Arr(<<"r">>), Str("r")}

ExplanationInputs == {Undefined, Str("e")}

ParsedInputs ==
    {Parsed(sc, la, re, ex, co) :
        sc \in NumberInputs, la \in LabelInputs, re \in ReasonsInputs,
        ex \in ExplanationInputs, co \in NumberInputs}

ContentInputs ==
    {Undefined, Str(""), Num(42), TextNoJson, TextBadJson}
    \cup {TextJson(P) : P \in ParsedInputs}

ParseInputs ==
    {NullBody} \cup {Body(api, c) : api \in {"gemini", "openai"}, c \in ContentInputs}

InitParse ==
    /\ providers = initializeProviders(DefaultConfig).providers
    /\ fallbackProvider = initializeProviders(DefaultConfig).fallbackProvider
    /\ store = [key \in AllKeys |-> NoEntry]
    /\ now = 0
    /\ call = [c \in Calls |-> IdleCall]
    /\ parseProv \in {GeminiProvider(1, "gemini-free", "gemini"),
                      OpenAIProvider(1, "gemini-free", "openai")}
    /\ parseData \in ParseInputs
    /\ parseOut = NotParsed
    /\ cacheOut = NotRun
    /\ RateIdle
    /\ LateIdle
    /\ ScanIdle

ParseGemini ==
    /\ parseProv.kind = "gemini"
    /\ parseOut = NotParsed
    /\ parseOut' = GeminiParseAnalysisResponse(parseProv, parseData)
    /\ UNCHANGED <<bridgeVars, cacheVars, call, parseProv, parseData, deleteVars, rateVars, scanVars, lateVars>>

ParseOpenAI ==
    /\ parseProv.kind = "openai"
    /\ parseOut = NotParsed
    /\ parseOut' = OpenAIParseAnalysisResponse(parseProv, parseData)
    /\ UNCHANGED <<bridgeVars, cacheVars, call, parseProv, parseData, deleteVars, rateVars, scanVars, lateVars>>

NextParse == ParseGemini \/ ParseOpenAI

SpecParse == InitParse /\ [][NextParse]_vars

(***************************************************************************)
(* Reading the record of a call.                                           *)
(***************************************************************************)
Done(c) == call[c].pc = "done"

Steps(c) == 1 .. Len(call[c].log)

\* the steps of call c at which event e happened in the given role
At(c, e, role) ==
    {i \in Steps(c) : call[c].log[i].e = e /\ call[c].log[i].role = role}

\* the provider awaited in the given role threw: its request timed out or
\* was answered with a non-2xx status
Failed(c, role) ==
    \E i \in At(c, "http", role) : call[c].log[i].what = "failed"

\* the provider awaited in the given role got a 2xx reply with a malformed body
GotMalformed(c, role) ==
    \E i \in At(c, "http", role) : call[c].log[i].what = "malformed"

\* the requests call c sent to a remote provider
HttpCalls(c) == At(c, "http", "primary") \cup At(c, "http", "fallback")

IsAnalysisResponse(r) ==
    DOMAIN r = {"score", "label", "reasons", "explanation", "confidence", "model", "provider"}

IsChatResponse(r) ==
    DOMAIN r = {"answer", "sources", "model", "provider", "confidence"}

(***************************************************************************)
(* C1: analyzeText and chat are total.  Whatever the providers and the     *)
(* cache do, the promise of a bridge call is never rejected, a call takes  *)
(* at most eight steps (two invocations, two lookups, two requests, one    *)
(* cache write, the return), and a call that has finished has resolved     *)
(* with a response object of its operation.                                *)
(***************************************************************************)
C1_BridgeTotal ==
    \A c \in Calls :
        /\ call[c].settled # "rejected"
        /\ Len(call[c].log) <= 8
        /\ Done(c) =>
              /\ call[c].settled = "resolved"
              /\ IF call[c].req.op = "analysis"
                 THEN IsAnalysisResponse(call[c].result)
                 ELSE IsChatResponse(call[c].result)

\* a chat call has finished after both provider requests failed and a cache
\* lookup failed as well
C1_Witness ==
    \E c \in Calls :
        /\ Done(c)
        /\ call[c].req.op = "chat"
        /\ Failed(c, "primary") /\ Failed(c, "fallback")
        /\ \E i \in At(c, "get", "fallback") : call[c].log[i].what = "error"
        /\ call[c].settled = "resolved"

(***************************************************************************)
(* C2: when the primary provider call failed and the fallback provider     *)
(* call failed too, analyzeText returns score 0.5, label 'uncertain',      *)
(* confidence 0.1 and a non-empty list of reasons that says the model      *)
(* analysis was unavailable.                                               *)
(***************************************************************************)
C2_DegradedResult ==
    \A c \in Calls :
        (/\ Done(c)
         /\ call[c].req.op = "analysis"
         /\ Failed(c, "primary") \/ At(c, "invoke", "primary") = {}
         /\ Failed(c, "fallback"))
        => /\ call[c].result.score = Num(5)
           /\ call[c].result.label = Str("uncertain")
           /\ call[c].result.confidence = Num(1)
           /\ call[c].result.reasons = <<"Model analysis unavailable">>

C2_Witness ==
    \E c \in Calls :
        /\ Done(c)
        /\ call[c].req.op = "analysis"
        /\ Failed(c, "primary")
        /\ Failed(c, "fallback")
        /\ call[c].result.confidence = Num(1)

(***************************************************************************)
(* C3: within one bridge call the primary provider is invoked at most      *)
(* once, the fallback provider exactly once if the primary failed or none  *)
(* is configured and never otherwise, nothing is invoked after the         *)
(* fallback was, and there are at most two invocations and two requests.   *)
(***************************************************************************)
C3_NoRetry ==
    \A c \in Calls :
        LET prim == At(c, "invoke", "primary")
            fb   == At(c, "invoke", "fallback")
            primaryOut == Failed(c, "primary") \/ providers.primary = NoProvider
        IN  /\ Cardinality(prim) <= 1
            /\ Cardinality(fb) <= 1
            /\ Cardinality(HttpCalls(c)) <= 2
            /\ \A i \in fb : \A j \in Steps(c) :
                  j > i => call[c].log[j].e # "invoke"
            /\ \A i \in fb : \A j \in prim : j < i
            /\ call[c].pc # "idle" =>
                  Cardinality(fb) = IF primaryOut THEN 1 ELSE 0

C3_Witness ==
    \E c \in Calls :
        /\ Done(c)
        /\ Cardinality(At(c, "invoke", "primary")) = 1
        /\ Cardinality(At(c, "invoke", "fallback")) = 1
        /\ Cardinality(HttpCalls(c)) = 2

(***************************************************************************)
(* C4: the fallback provider of the bridge is a different instance from    *)
(* the primary provider, so no call sends its request in the fallback role *)
(* to the instance that just failed in the primary role.                   *)
(***************************************************************************)
C4_FallbackDistinct ==
    /\ fallbackProvider.id # providers.primary.id
    /\ \A c \in Calls : \A i \in At(c, "invoke", "fallback") :
          call[c].log[i].id # providers.primary.id

C6_ParseNeverThrows ==
    parseOut # NotParsed =>
        /\ ~parseOut.threw
        /\ BodyMalformed(parseProv.kind, "analysis", parseData) =>
              /\ parseOut.value.score = Num(5)
              /\ parseOut.value.label = Str("uncertain")
              /\ parseOut.value.confidence = Num(1)
              /\ parseOut.value.score = EmergencyAnalysis.score
              /\ parseOut.value.label = EmergencyAnalysis.label
              /\ parseOut.value.confidence = EmergencyAnalysis.confidence

C6_Witness ==
    /\ parseOut # NotParsed
    /\ parseProv.kind = "gemini"
    /\ parseData = Body("gemini", TextBadJson)
    /\ parseOut.value.confidence = Num(1)

(***************************************************************************)
(* C7: when the cache holds a live entry under the key of the request      *)
(* (operation, first 16 hex digits of the SHA-256 of the text, model name) *)
(* and serves it, the provider's analyzeText / chat returns that entry,    *)
(* sends no HTTP request and writes nothing to the cache.                  *)
(***************************************************************************)
RequestKey(c) ==
    <<call[c].req.op, Sha256Hex16(KeyText(call[c].req)), call[c].cur.modelName>>

C7_CacheHitNoNetwork ==
    [][\A c \in Calls :
          (/\ call[c].pc = "get"
           /\ call'[c] # call[c]
           /\ store[RequestKey(c)].present
           /\ now < store[RequestKey(c)].expires
           /\ call'[c].log[Len(call[c].log) + 1].what # "error")
          => /\ call'[c].pc = "done"
             /\ call'[c].settled = "resolved"
             /\ call'[c].result = store[RequestKey(c)].value.json
             /\ HttpCalls(c)' = HttpCalls(c)
             /\ At(c, "set", call[c].stage)' = {}
             /\ store' = store]_vars

C7_Witness ==
    \E c \in Calls :
        /\ Done(c)
        /\ \E i \in At(c, "get", "primary") : call[c].log[i].what = "hit"
        /\ HttpCalls(c) = {}

(***************************************************************************)
(* C8 as stated: for two analyzeText calls with the same text, the second  *)
(* issued after the first returned and within the one-hour TTL, the remote *)
(* provider is invoked at most once in total and the second call returns   *)
(* the result of the first unchanged.                                      *)
(***************************************************************************)
\* d is an analysis of the text of c, started after c returned and finished
\* less than the analysis TTL after c returned
Repeats(c, d) ==
    /\ c # d
    /\ Done(c) /\ Done(d)
    /\ c \in call[d].after
    /\ call[c].req.op = "analysis"
    /\ call[d].req = call[c].req
    /\ call[d].end < call[c].end + AnalysisTTL

C8_CacheIdempotent ==
    \A c, d \in Calls :
        Repeats(c, d) =>
            /\ Cardinality(HttpCalls(c)) + Cardinality(HttpCalls(d)) <= 1
            /\ call[d].result = call[c].result

(***************************************************************************)
(* C8 amended: for two analyzeText calls with the same text, the second    *)
(* issued after the first returned and finished within the one-hour TTL,   *)
(* if the first call stored a remote reply in the cache, that entry is     *)
(* still there (not evicted, not rewritten by another call) and the cache  *)
(* lookup of the second call succeeds, then the second call sends no       *)
(* request to a remote provider                                            *)
(* (the total is that of the first call: one when its first request was    *)
(* answered) and returns the cached JSON copy of the first result, which   *)
(* equals it whenever its score and confidence are numbers.                *)
(***************************************************************************)
Stored(c) ==
    \E i \in Steps(c) : call[c].log[i].e = "set" /\ call[c].log[i].what = "stored"

FirstLookupServed(d) ==
    \E i \in Steps(d) :
        /\ call[d].log[i].e = "get"
        /\ call[d].log[i].what # "error"
        /\ \A j \in Steps(d) : call[d].log[j].e = "get" => i <= j

C8_CachedRepeat ==
    \A c, d \in Calls :
        (Repeats(c, d) /\ Stored(c) /\ FirstLookupServed(d)) =>
            /\ HttpCalls(d) = {}
            /\ Failed(c, "primary") \/ Cardinality(HttpCalls(c)) = 1
            /\ call[d].result.score = JsonNumber(call[c].result.score)
            /\ call[d].result.confidence = JsonNumber(call[c].result.confidence)
            /\ [call[d].result EXCEPT !.score = 0, !.confidence = 0]
                  = [call[c].result EXCEPT !.score = 0, !.confidence = 0]
            /\ (call[c].result.score.t = "number" /\ call[c].result.confidence.t = "number")
                  => call[d].result = call[c].result

C8_Witness ==
    \E c, d \in Calls :
        /\ Repeats(c, d) /\ Stored(c) /\ FirstLookupServed(d)
        /\ Cardinality(HttpCalls(c)) = 1
        /\ call[c].result.score = Num(7)
        /\ call[d].result = call[c].result

(***************************************************************************)
(* C9: for every numeric score and confidence in a provider's reply the    *)
(* AnalysisResponse carries min(1, max(0, value)); a missing label becomes *)
(* 'uncertain' and missing reasons become the empty list.                  *)
(***************************************************************************)
Clamp(n) == IF n < 0 THEN 0 ELSE IF n > 10 THEN 10 ELSE n

C9_ClampExact ==
    (/\ parseOut # NotParsed
     /\ ~parseOut.threw
     /\ ~BodyMalformed(parseProv.kind, "analysis", parseData))
    => LET reported == parseData.content.parsed
           response == parseOut.value
       IN  /\ reported.score.t = "number" =>
                 response.score = Num(Clamp(reported.score.v))
           /\ reported.confidence.t = "number" =>
                 response.confidence = Num(Clamp(reported.confidence.v))
           /\ reported.label = Undefined => response.label = Str("uncertain")
           /\ reported.reasons = Undefined => response.reasons = <<>>

(***************************************************************************)
(* C10: every AnalysisResponse that analyzeText returns, built from a      *)
(* reply, read from the cache or synthesized, has a label among            *)
(* 'suspicious', 'clean' and 'uncertain'.                                  *)
(***************************************************************************)
C10_LabelInType ==
    \A c \in Calls :
        (Done(c) /\ call[c].req.op = "analysis") =>
            call[c].result.label \in {Str("suspicious"), Str("clean"), Str("uncertain")}

(***************************************************************************)
(* C11: the cache is best effort.  cache.get, cache.set and cache.delete   *)
(* never throw; a cache.get that fails is a miss (the provider goes on to  *)
(* its request); a cache.set that fails leaves the cache as it was; and a  *)
(* call for which every cache operation failed still sent a request to     *)
(* each hosted provider it invoked and, when a request was answered with a *)
(* well-formed reply, returned the response that provider built from it.   *)
(***************************************************************************)
\* the provider the bridge awaits in the given role
ProviderAt(role) == IF role = "primary" THEN providers.primary ELSE fallbackProvider

\* every cache operation of call c failed
CacheFailing(c) ==
    \A i \in Steps(c) :
        /\ call[c].log[i].e = "get" => call[c].log[i].what = "error"
        /\ call[c].log[i].e = "set" => call[c].log[i].what = "dropped"

C11_NeverThrows ==
    /\ ~cacheOut.threw
    /\ \A c \in Calls :
          LET log == call[c].log
          IN  /\ \A i \in Steps(c) : log[i].what # "threw"
              /\ \A i \in Steps(c) :
                    (log[i].e = "get" /\ log[i].what = "error") =>
                        IF i = Len(log)
                        THEN call[c].pc = "http"
                        ELSE log[i + 1].e = "http" /\ log[i + 1].role = log[i].role
              /\ (Done(c) /\ CacheFailing(c)) =>
                    /\ \A role \in {"primary", "fallback"} :
                          (At(c, "invoke", role) # {} /\ ProviderAt(role).kind # "local")
                          => At(c, "http", role) # {}
                    /\ \A i \in HttpCalls(c) :
                          log[i].what = "ok" =>
                              /\ call[c].settled = "resolved"
                              /\ call[c].result = call[c].pending
                              /\ call[c].result.provider = ProviderAt(log[i].role).provider

\* a cache.set that failed changed nothing in the cache
C11_SetDropped ==
    \A c \in Calls :
        (/\ call[c].pc = "set"
         /\ Len(call'[c].log) > Len(call[c].log)
         /\ call'[c].log[Len(call[c].log) + 1].what = "dropped")
        => store' = store

\* C11: no cache operation throws, a failed get is a miss, a failed set is
\* dropped, and the provider's result is returned all the same
C11_CacheBestEffort == []C11_NeverThrows /\ [][C11_SetDropped]_vars

\* an analysis whose result another call had cached, and still is cached,
\* found the cache failing on its lookup and on its write, was answered by
\* its primary provider and returned that answer; a cache.delete has run
C11_Witness ==
    \E c \in Calls, d \in Calls :
        /\ Done(c) /\ d \in call[c].after
        /\ call[c].req.op = "analysis" /\ call[d].req = call[c].req
        /\ CacheFailing(c)
        /\ \E i \in At(c, "http", "primary") : call[c].log[i].what = "ok"
        /\ store[RequestKey(c)].present
        /\ \E i \in At(c, "set", "primary") : call[c].log[i].what = "dropped"
        /\ call[c].result = call[c].pending
        /\ cacheOut = Return(Undefined)

(***************************************************************************)
(* C12: a hosted provider (Gemini or OpenAI) whose request was answered    *)
(* with a well-formed reply goes on to cache.set, and a cache.set that     *)
(* succeeds writes the response under the request's key with a TTL of      *)
(* 3600 s for an analysis and of 1800 s for a chat; every other step of a  *)
(* call, a request that fails and a parse that throws among them, leaves   *)
(* the cache as it was.                                                    *)
(***************************************************************************)
\* the first thing call c did in the step taken, if it did anything
Did(c) == call'[c].log[Len(call[c].log) + 1]

C12_CacheWrites ==
    [][\A c \in Calls :
          Len(call'[c].log) > Len(call[c].log) =>
              IF Did(c).e = "set" /\ Did(c).what = "stored"
              THEN /\ call[c].cur.kind \in {"gemini", "openai"}
                   /\ store' = [store EXCEPT ![RequestKey(c)] =
                         [present |-> TRUE,
                          value   |-> JsonStringify(call'[c].result),
                          expires |-> now + (IF call[c].req.op = "analysis"
                                             THEN 3600 ELSE 1800)]]
              ELSE /\ store' = store
                   /\ (Did(c).e = "http" /\ Did(c).what = "ok") =>
                         call'[c].pc = "set"]_vars

\* an OpenAI provider answered a chat after the clock had moved, and the
\* answer is cached until 1800 s after the call
C12_Witness ==
    \E c \in Calls :
        /\ Done(c)
        /\ call[c].req.op = "chat"
        /\ call[c].cur.kind = "openai"
        /\ \E i \in Steps(c) : call[c].log[i].e = "set" /\ call[c].log[i].what = "stored"
        /\ call[c].end > 0
        /\ store[RequestKey(c)].present
        /\ store[RequestKey(c)].expires = call[c].end + 1800

(***************************************************************************)
(* C13: the rate limiter fails open.  When the Redis client is not         *)
(* connected or the pipeline fails (exec rejects, or resolves with null or *)
(* with fewer than two replies), rateLimit.checkLimit does not throw and   *)
(* returns allowed = true and remaining = limit, whatever the identifier,  *)
(* the limit, the window and the requests already counted.                 *)
(***************************************************************************)
C13_FailOpen ==
    (rateIn # NoCheck /\ rateIn.outcome # "ok") =>
        /\ ~rateOut.threw
        /\ rateOut.value.allowed = TRUE
        /\ rateOut.value.remaining = rateIn.limit

\* the pipeline failed for an identifier that had used up its limit
C13_Witness ==
    /\ rateIn # NoCheck
    /\ rateIn.outcome = "short"
    /\ rateIn.limit = 1
    /\ Len(Members(zset, zexp, rateIn.identifier, rateNow)) >= 2
    /\ rateOut.value.allowed = TRUE

(***************************************************************************)
(* Reading the record of the scan request.                                 *)
(***************************************************************************)
\* detect has resolved
Detected == scan.pc \in {"detected", "done"} /\ scan.response.status \notin {400, 500}

\* the remote analysis was required and every provider of the bridge failed
EveryProviderFailed ==
    /\ scan.escalated
    /\ Done("c1")
    /\ Failed("c1", "primary") \/ At("c1", "invoke", "primary") = {}
    /\ Failed("c1", "fallback")

Labels == {"clean", "suspicious", "phishing"}

\* r has the fields and the ranges of a DetectionResult
WellFormed(r) ==
    /\ DOMAIN r = {"score", "label", "reasons", "confidence", "localAnalysis",
                   "requiresCloudAnalysis"}
    /\ r.score \in 0 .. 1000
    /\ r.confidence \in 0 .. 1000
    /\ r.label \in Labels
    /\ r.localAnalysis \in BOOLEAN
    /\ r.requiresCloudAnalysis \in BOOLEAN

Contains(reasons, text) == \E i \in 1 .. Len(reasons) : reasons[i] = text

C15_LabelFromScore ==
    Detected =>
        LET r == scan.outcome.value
        IN  /\ r.score < thresholdsConfig.lowThreshold => r.label = "clean"
            /\ (thresholdsConfig.lowThreshold <= r.score
                   /\ r.score < thresholdsConfig.highThreshold) => r.label = "suspicious"
            /\ r.score >= thresholdsConfig.highThreshold => r.label = "phishing"
            /\ scan.pc = "done" => scan.response.label = r.label

\* the remote provider said 'suspicious', the merged score is at or above
\* the high threshold and the result is labelled 'phishing'
C15_Witness ==
    /\ Detected
    /\ scan.escalated
    /\ call["c1"].result.label = Str("suspicious")
    /\ scan.outcome.value.score >= thresholdsConfig.highThreshold
    /\ scan.outcome.value.label = "phishing"

Analysed ==
    \/ scan.pc \in {"cloud", "detected"}
    \/ scan.pc = "done" /\ scan.response.status = 200

\* the local score is below the low or at or above the high threshold
Decisive ==
    \/ scan.local.score < thresholdsConfig.lowThreshold
    \/ scan.local.score >= thresholdsConfig.highThreshold

\* no call of the bridge was made for the request
NoRemoteCall == ~scan.escalated /\ call["c1"].pc = "idle"

\* the bridge is called for the request: decided, and made by the time
\* detect resolves
RemoteCall == scan.escalated /\ (Detected => Done("c1"))

C18_LocalFlag ==
    Detected =>
        LET r == scan.outcome.value
        IN  /\ r.localAnalysis <=> ~scan.escalated
            /\ scan.escalated <=> Done("c1")
            /\ scan.escalated => (~r.localAnalysis /\ r.requiresCloudAnalysis)
            /\ scan.pc = "done" =>
                  /\ scan.response.analysis_type = "local" <=> ~scan.escalated
                  /\ scan.response.analysis_type = "hybrid" <=> scan.escalated

\* an escalated request whose bridge call was answered by the primary
\* provider got a 'hybrid' response
C18_Witness ==
    /\ scan.pc = "done"
    /\ scan.response.status = 200
    /\ scan.escalated
    /\ \E i \in At("c1", "http", "primary") : call["c1"].log[i].what = "ok"
    /\ scan.response.analysis_type = "hybrid"
    /\ ~scan.outcome.value.localAnalysis

(***************************************************************************)
(* C19: for a scan request that reached detection,                         *)
(* securityLogger.logPhishingDetection is called exactly once, with the    *)
(* score and the reasons of the result, the url of the request ('unknown'  *)
(* when it has none) and its orgId, if the final label is not 'clean'; it  *)
(* is not called if the label is 'clean', nor before detect resolved, nor  *)
(* when detect rejected.                                                   *)
(***************************************************************************)
C19_LoggedOnceIfFlagged ==
    /\ Len(scan.logged) <= 1
    /\ scan.pc # "done" => scan.logged = <<>>
    /\ (scan.pc = "done" /\ scan.response.status # 200) => scan.logged = <<>>
    /\ (scan.pc = "done" /\ scan.response.status = 200) =>
          LET r == scan.outcome.value
          IN  IF r.label = "clean"
              THEN scan.logged = <<>>
              ELSE scan.logged =
                      <<[score   |-> r.score,
                         url     |-> IF scan.req.url = Undefined
                                     THEN Str("unknown") ELSE scan.req.url,
                         reasons |-> r.reasons,
                         orgId   |-> scan.req.orgId]>>

\* a request without url was found suspicious after escalation and logged
\* once, and both writes that were not awaited have failed since
C19_Witness ==
    /\ scan.pc = "done"
    /\ scan.response.status = 200
    /\ scan.escalated
    /\ scan.outcome.value.label = "suspicious"
    /\ scan.req.url = Undefined
    /\ Len(scan.logged) = 1
    /\ scan.logged[1].url = Str("unknown")
    /\ scan.stored = "failed" /\ scan.recorded = "failed"

(***************************************************************************)
(* C20: a scan result whose final score is below the configured report     *)
(* threshold does not trigger the security-event notification.             *)
(***************************************************************************)
C20_ReportThresholdGates ==
    (scan.pc = "done" /\ scan.response.status = 200
        /\ scan.outcome.value.score < thresholdsConfig.reportThreshold)
    => scan.logged = <<>>

(***************************************************************************)
(* C21  Persistence is fire-and-forget.  Once detect has resolved the      *)
(* handler sends the success response with the score, label and reasons of *)
(* the result in the very step that starts storeScanResult and             *)
(* recordAnalyticsEvent; however the two writes settle, the response stays *)
(* as sent, and a rejected write is handled by its .catch.                 *)
(***************************************************************************)
PersistenceStates == {"pending", "ok", "failed"}

C21_Responded ==
    /\ scan.stored \in PersistenceStates \cup {"none"}
    /\ scan.recorded \in PersistenceStates \cup {"none"}
    /\ (scan.stored # "none" \/ scan.recorded # "none") =>
          /\ scan.pc = "done"
          /\ scan.response.status = 200
          /\ scan.response.label = scan.outcome.value.label
          /\ scan.response.reasons = scan.outcome.value.reasons
          /\ scan.response.score = Round2(scan.outcome.value.score)

C21_SentUnawaited ==
    /\ (scan.pc = "detected" /\ scan' # scan) =>
          /\ scan'.response.status = 200
          /\ scan'.stored = "pending" /\ scan'.recorded = "pending"
    /\ (scan.stored # scan'.stored \/ scan.recorded # scan'.recorded) =>
          (scan.pc = "detected" \/ scan'.response = scan.response)

C21_FireAndForget == []C21_Responded /\ [][C21_SentUnawaited]_vars

\* the response is out, one write is still pending and the other one failed
C21_Witness ==
    /\ scan.response.status = 200
    /\ scan.stored = "failed"
    /\ scan.recorded = "pending"

(***************************************************************************)
(* C22  The configuration is exported only with strictly ordered           *)
(* thresholds, low < high < report; an environment with low >= high or     *)
(* high >= report makes validateConfig throw and the process exit with     *)
(* code 1 before it serves a request.                                      *)
(***************************************************************************)
StrictlyOrdered(c) ==
    JsLt(c.lowThreshold, c.highThreshold) /\ JsLt(c.highThreshold, c.reportThreshold)

C22_OrderedOrExit ==
    /\ boot.pc \in {"loaded", "listening"} => StrictlyOrdered(boot.config)
    /\ (boot.pc \notin {"none", "start"} /\ InvalidThresholds(boot.env)) =>
          /\ boot.pc = "exited"
          /\ boot.exitCode = 1
          /\ boot.served = 0

(***************************************************************************)
(* C23  The degraded placeholder (score 0.5, label 'uncertain', confidence *)
(* 0.1) is never written to the cache: after a reply that could not be     *)
(* parsed, the next analyzeText call for the same text within the TTL      *)
(* contacts the remote provider again.                                     *)
(***************************************************************************)
IsPlaceholder(r) ==
    /\ r.score = Num(5)
    /\ r.label = Str("uncertain")
    /\ r.confidence = Num(1)
    /\ r.reasons = <<"Analysis failed - unable to parse response">>

C23_PlaceholderNotCached ==
    /\ \A key \in AllKeys :
          (key[1] = "analysis" /\ store[key].present) =>
              ~IsPlaceholder(JsonParse(store[key].value))
    /\ \A c, d \in Calls :
          (Repeats(c, d) /\ (GotMalformed(c, "primary") \/ GotMalformed(c, "fallback"))) =>
              HttpCalls(d) # {}

(***************************************************************************)
(* C24  Two overlapping analyzeText calls with the same text and model     *)
(* that start with an empty cache invoke the remote provider at most once  *)
(* in total.  (Checked for calls in which no request to a provider failed, *)
(* so that a second request is never the fallback of a failed one.)        *)
(***************************************************************************)
\* neither call had returned when the other one started
Overlap(c, d) ==
    /\ c # d
    /\ Done(c) /\ Done(d)
    /\ c \notin call[d].after
    /\ d \notin call[c].after

NoFailure(c) == ~Failed(c, "primary") /\ ~Failed(c, "fallback")

C24_SingleFlight ==
    \A c, d \in Calls :
        (/\ Overlap(c, d)
         /\ call[c].req.op = "analysis"
         /\ call[d].req = call[c].req
         /\ RequestKey(c) = RequestKey(d)
         /\ NoFailure(c) /\ NoFailure(d)) =>
            Cardinality(HttpCalls(c)) + Cardinality(HttpCalls(d)) <= 1

(***************************************************************************)
(* C25  With Redis available, for one identifier and one limiter           *)
(* configuration, among the checkLimit calls whose timestamps lie in a     *)
(* span shorter than windowSeconds at most `limit` return allowed = true;  *)
(* a denied call is recorded in the window like an allowed one: the key    *)
(* holds the timestamp of every call of the last call's window.            *)
(***************************************************************************)
RedisAvailable(id) == \A i \in 1 .. Len(rateLog[id]) : rateLog[id][i].ok

WindowMs == rateIn.windowSeconds * 1000

AllowedIn(id, i, j) == {k \in i .. j : rateLog[id][k].allowed}

\* the timestamps of the calls that lie in the window of the last call
InLastWindow(id) ==
    LET log == rateLog[id]
        times == [k \in 1 .. Len(log) |-> log[k].time]
    IN  SelectSeq(times, LAMBDA t : t > log[Len(log)].time - WindowMs)

C26_RemainingHonoured ==
    \A id \in Identifiers :
        \A i, j \in 1 .. Len(rateLog[id]) :
            (/\ rateLog[id][i].ok /\ rateLog[id][i].allowed
             /\ i < j /\ j <= i + rateLog[id][i].remaining
             /\ rateLog[id][j].ok
             /\ rateLog[id][j].time < rateLog[id][i].time + WindowMs) =>
                rateLog[id][j].allowed

(***************************************************************************)
(* C27  For every interleaving of concurrent addMessageToSession calls on  *)
(* one chat session, each message whose call returned successfully is in   *)
(* the stored messages as long as fewer than 20 messages were added after  *)
(* it, and the stored list never holds more than 20 messages.              *)
(***************************************************************************)
\* the number of messages added after the last addition of m
AddedAfter(m) ==
    LET added == sessions.added
        at == {i \in 1 .. Len(added) : added[i] = m}
    IN  Len(added) - (CHOOSE i \in at : \A j \in at : j <= i)

Returned == UNION {sessions.post[q].returned : q \in ChatPosts}

C27_NoLostMessage ==
    sessions.pc = "serving" =>
        /\ \A m \in Returned :
              AddedAfter(m) < SessionLimit => Contains(sessions.messages, m)
        /\ Len(sessions.messages) <= SessionLimit

(***************************************************************************)
(* C28  After any sequence of updateConfig, setDefaults and                *)
(* resetToDefaults calls that returned without error, the configuration    *)
(* getConfig returns satisfies 0 <= lowThreshold < highThreshold <         *)
(* reportThreshold <= 1: validateConfig reports no error for it.           *)
(***************************************************************************)
C28_ConfigStaysValid ==
    (configService.pc = "ready" /\ configService.got # Undefined) =>
        LET c == configService.got
        IN  /\ ValidateConfig(c) = <<>>
            /\ JsGe(c.lowThreshold, Num(0))
            /\ JsLt(c.lowThreshold, c.highThreshold)
            /\ JsLt(c.highThreshold, c.reportThreshold)
            /\ JsGe(Num(10), c.reportThreshold)

(***************************************************************************)
(* C29  syncPendingEvents neither loses nor duplicates events: every event *)
(* pending when a sync starts is, when it finishes, either sent exactly    *)
(* once or back in pendingEvents, and every event queued by a trackEvent   *)
(* that runs while the sync is in progress is still in pendingEvents when  *)
(* the sync finishes.  (The two statements about the end of a sync are for *)
(* a sync that no other sync overlaps; that every event is in exactly one  *)
(* place holds throughout.)                                                *)
(***************************************************************************)
Occurrences(q, e) == Cardinality({i \in 1 .. Len(q) : q[i] = e})

\* the places an event can be: sent, pending, or held by a running sync
Places(e) ==
    analyticsService.sent[e]
    + Occurrences(analyticsService.pendingEvents, e)
    + Occurrences(analyticsService.sync["s1"].events, e)
    + Occurrences(analyticsService.sync["s2"].events, e)

Tx(t) == pgClient.tx[t]

In(t, stmt, ok) == \E i \in 1 .. Len(Tx(t).log) : Tx(t).log[i] = Ran(stmt, ok)

Issued(t, stmt) == In(t, stmt, TRUE) \/ In(t, stmt, FALSE)

\* BEGIN before the callback, COMMIT only after a resolved callback, and
\* ROLLBACK after a failed callback or COMMIT
Ordered(t) ==
    /\ Issued(t, "callback") => Tx(t).log[1] = Ran("BEGIN", TRUE)
    /\ Issued(t, "COMMIT") => In(t, "callback", TRUE)
    /\ (Tx(t).pc = "done" /\ (In(t, "callback", FALSE) \/ In(t, "COMMIT", FALSE))) =>
          Issued(t, "ROLLBACK")

\* the client, once obtained, is released exactly once by the end
ReleasedOnce(t) ==
    /\ Tx(t).released <= 1
    /\ (Tx(t).pc = "done" /\ Tx(t).out # Rejected("connect")) => Tx(t).released = 1
    /\ Tx(t).released = 1 => Tx(t).pc = "done"

C30_Transaction ==
    pgClient.pc = "pool" =>
        \A t \in Transactions :
            /\ Ordered(t)
            /\ ReleasedOnce(t)
            /\ (Tx(t).pc = "done" /\ In(t, "callback", FALSE)) =>
                  Tx(t).out = Rejected("callback")
            /\ (Tx(t).pc = "done" /\ In(t, "COMMIT", FALSE)) =>
                  Tx(t).out = Rejected("COMMIT")

(***************************************************************************)
(* What transaction does in every case: the order of the statements and    *)
(* the single release are as C30 has them, and the promise rejects with    *)
(* the error of the callback or of the COMMIT when ROLLBACK succeeded,     *)
(* with the error of ROLLBACK when ROLLBACK failed.                        *)
(***************************************************************************)
TransactionDiscipline ==
    pgClient.pc = "pool" =>
        \A t \in Transactions :
            /\ Ordered(t)
            /\ ReleasedOnce(t)
            /\ (Tx(t).pc = "done" /\ In(t, "callback", FALSE)) =>
                  Tx(t).out = IF In(t, "ROLLBACK", TRUE) THEN Rejected("callback")
                              ELSE Rejected("ROLLBACK")
            /\ (Tx(t).pc = "done" /\ In(t, "COMMIT", FALSE)) =>
                  Tx(t).out = IF In(t, "ROLLBACK", TRUE) THEN Rejected("COMMIT")
                              ELSE Rejected("ROLLBACK")
            /\ (Tx(t).pc = "done" /\ Tx(t).out = Resolved) => In(t, "COMMIT", TRUE)

====
